---- MODULE Spec2Model ----
(***************************************************************************)
(* libdof: the validation-and-resolution pipeline Dof::try_from, the grid   *)
(* resize primitive Keyboard::resized, shift-layer synthesis, the          *)
(* conversion back to DofIntermediate and Dof::swap.                       *)
(*                                                                         *)
(* Grids are sequences of rows (1-based here, 0-based in the source).      *)
(* Lengths of physical keys are fixed-point hundredths of a key unit: all  *)
(* the literals of the source are exact multiples of 0.01.                 *)
(***************************************************************************)
EXTENDS Integers, Sequences, FiniteSets, TLC

VARIABLES
    inter,      \* the DofIntermediate handed to Dof::try_from
    dof,        \* Option<Dof>: the resolved layout the caller holds
    res,        \* Option<Result>: what the last fallible call returned
    pc,         \* position of the caller
    check,      \* Option<Result> of a direct validate_layer_* call
    nswaps,     \* number of Dof::swap calls made so far
    build,      \* what the build makes of the undefined behaviour in Dof::swap
    rgrid,      \* Keyboard::resized: the source grid (self)
    ranchor,    \* Keyboard::resized: Anchor(x, y)
    rshape,     \* Keyboard::resized: desired_shape
    rout,       \* Keyboard::resized: Option<Result>
    skey,       \* Key::shifted: self
    sout,       \* Key::shifted: Option<Key>
    call,       \* a call of a pure function: its name and arguments
    ret         \* Option of what the call returned

vars == <<inter, dof, res, pc, check, nswaps, build, rgrid, ranchor, rshape, rout, skey, sout,
          call, ret>>

pipelineVars == <<inter, dof, res, pc, check, nswaps, build>>
resizeVars == <<rgrid, ranchor, rshape, rout>>
shiftVars == <<skey, sout>>
callVars == <<call, ret>>

----------------------------------------------------------------------------
(* Bounds *)

MaxRows == 2        \* rows of a layer / explicit fingering
MaxCols == 2        \* cells in a row of a layer / explicit fingering
MaxAnchorX == 1     \* explicit anchor x offsets 0..MaxAnchorX
MaxAnchorY == 3     \* explicit anchor y offsets 0..MaxAnchorY
MaxSwaps == 2       \* Dof::swap calls in one behaviour
MaxPos == 2         \* rows and columns 0..MaxPos of a swap position
MaxGridRows == 2    \* rows of the source grid of a resize
MaxGridCols == 2    \* cells in a row of the source grid of a resize
MaxShapeRows == 3   \* rows of a Shape handed to Shape::fits_in
MaxShapeCols == 2   \* row lengths 0..MaxShapeCols of such a Shape
MaxTextLen == 4     \* chars of a text handed to ComboKey::from_str
MaxNth == 2         \* occurrence indices 0..MaxNth of a ComboKey
MaxComboLen == 2    \* keys of a combo

----------------------------------------------------------------------------
(* Option and Result *)

None == [some |-> FALSE]
Some(v) == [some |-> TRUE, v |-> v]

Ok(v) == [ok |-> TRUE, val |-> v]
Err(kind, info) == [ok |-> FALSE, err |-> [kind |-> kind, info |-> info]]

Min(a, b) == IF a <= b THEN a ELSE b

\* All sequences over S of length 0..n
SeqsUpTo(S, n) == UNION {[1..k -> S] : k \in 0..n}

----------------------------------------------------------------------------
(* The parts of the state a specification does not use *)

IdlePipeline ==
    /\ inter = None /\ dof = None /\ res = None
    /\ pc = "idle" /\ check = None /\ nswaps = 0 /\ build = "exchanged"

IdleResize ==
    /\ rgrid = <<>> /\ ranchor = <<0, 0>> /\ rshape = <<>> /\ rout = None

IdleShift ==
    /\ skey = None /\ sout = None

IdleCalls ==
    /\ call = [fn |-> "none"] /\ ret = None

----------------------------------------------------------------------------
(* Keyboard trait *)

\* Keyboard::shape
shape(grid) == [i \in 1..Len(grid) |-> Len(grid[i])]

\* Keyboard::row_count
row_count(grid) == Len(grid)

\* A plausible slip: the range checked but the whole slice returned
GetFrom_whole(s, from) ==
    IF from > Len(s) THEN None ELSE Some(s)

\* slice::get(from..): None when from > len
GetFrom(s, from) ==
    IF from > Len(s) THEN None ELSE Some(SubSeq(s, from + 1, Len(s)))

\* slice::get(..to): None when to > len
GetTo(s, to) ==
    IF to > Len(s) THEN None ELSE Some(SubSeq(s, 1, to))

\* Keyboard::resized
resized(grid, anchor, desired_shape) ==
    LET offset_x == anchor[1]
        offset_y == anchor[2]
        below == GetFrom(grid, offset_y)
    IN  IF ~below.some THEN Err("AnchorBiggerThanLayout", <<>>)
        ELSE
        LET cut == [i \in 1..Len(below.v) |-> GetFrom(below.v[i], offset_x)]
        IN  IF \E i \in 1..Len(cut) : ~cut[i].some
            THEN Err("AnchorBiggerThanLayout", <<>>)
            ELSE
            LET anchor_resized == [i \in 1..Len(cut) |-> cut[i].v]
                n == Min(Len(anchor_resized), Len(desired_shape))
                taken == [i \in 1..n |-> GetTo(anchor_resized[i], desired_shape[i])]
            IN  IF \E i \in 1..n : ~taken[i].some
                THEN Err("LayoutDoesntFit", <<>>)
                ELSE Ok([i \in 1..n |-> taken[i].v])

----------------------------------------------------------------------------
(* dofinitions.rs: Key, Key::shifted *)

Empty == [t |-> "Empty", v |-> ""]
Transparent == [t |-> "Transparent", v |-> ""]
Char(c) == [t |-> "Char", v |-> c]
Word(w) == [t |-> "Word", v |-> w]
Special(s) == [t |-> "Special", v |-> s]
Layer(name) == [t |-> "Layer", v |-> name]

SpecialKey ==
    {"Esc", "Repeat", "Space", "Tab", "Enter", "Shift", "Caps", "Ctrl",
     "Alt", "Meta", "Menu", "Fn", "Backspace", "Del"}

LowerCase ==
    <<"a", "b", "c", "d", "e", "f", "g", "h", "i", "j", "k", "l", "m",
      "n", "o", "p", "q", "r", "s", "t", "u", "v", "w", "x", "y", "z">>
UpperCase ==
    <<"A", "B", "C", "D", "E", "F", "G", "H", "I", "J", "K", "L", "M",
      "N", "O", "P", "Q", "R", "S", "T", "U", "V", "W", "X", "Y", "Z">>

\* The character U+0060 of the first arm of Key::shifted, written by name:
\* a grave accent inside a TLA+ string opens a quotation.
GraveAccent == "GRAVE ACCENT"

\* char::to_uppercase: the characters of the upper-case expansion, in order.
\* Only the sharp s of this alphabet expands to more than one character.
to_uppercase(c) ==
    IF \E i \in 1..Len(LowerCase) : LowerCase[i] = c
    THEN <<UpperCase[CHOOSE i \in 1..Len(LowerCase) : LowerCase[i] = c]>>
    ELSE IF c = "ß" THEN <<"S", "S">>
    ELSE <<c>>

RECURSIVE to_string(_)
\* ToUppercase::to_string: the characters joined into one string
to_string(cs) == IF cs = <<>> THEN "" ELSE Head(cs) \o to_string(Tail(cs))

\* Key::shifted
shifted(k) ==
    IF k.t = "Char" THEN
        CASE k.v = GraveAccent -> Char("~")
          [] k.v = "1" -> Char("!")
          [] k.v = "2" -> Char("@")
          [] k.v = "3" -> Char("#")
          [] k.v = "4" -> Char("$")
          [] k.v = "5" -> Char("%")
          [] k.v = "6" -> Char("^")
          [] k.v = "7" -> Char("*")
          [] k.v = "9" -> Char("(")
          [] k.v = "0" -> Char(")")
          [] k.v = "[" -> Char("{")
          [] k.v = "]" -> Char("}")
          [] k.v = "<" -> Char(">")
          [] k.v = "'" -> Char("\"")
          [] k.v = "," -> Char("<")
          [] k.v = "." -> Char(">")
          [] k.v = ";" -> Char(":")
          [] k.v = "/" -> Char("?")
          [] k.v = "=" -> Char("+")
          [] k.v = "-" -> Char("_")
          [] k.v = "\\" -> Char("|")
          [] OTHER ->
                LET upper == to_uppercase(k.v)
                IN  IF Len(upper) = 1 THEN Char(upper[1])
                    ELSE Word(to_string(upper))
    ELSE IF k.t = "Special" THEN Transparent
    ELSE k

----------------------------------------------------------------------------
(* dofinitions.rs: KeyboardType, NamedFingering *)

NamedKeyboardTypes == {"Ansi", "Iso", "Ortho", "Colstag"}

Traditional == "Traditional"
Angle == "Angle"

\* KeyboardType::fingering
KeyboardType_fingering(board, named_fingering) ==
    CASE board = "Ansi" /\ named_fingering = Traditional -> Ok(<<
            <<"LP", "LP", "LR", "LM", "LI", "LI", "RI", "RI", "RM", "RR", "RP", "RP", "RP", "RP">>,
            <<"LP", "LP", "LR", "LM", "LI", "LI", "RI", "RI", "RM", "RR", "RP", "RP", "RP", "RP">>,
            <<"LP", "LP", "LR", "LM", "LI", "LI", "RI", "RI", "RM", "RR", "RP", "RP", "RP">>,
            <<"LP", "LP", "LR", "LM", "LI", "LI", "RI", "RI", "RM", "RR", "RP", "RP">>,
            <<"LP", "LP", "LT", "LT", "LT", "RT", "RT", "RP">> >>)
      [] board = "Ansi" /\ named_fingering = Angle -> Ok(<<
            <<"LP", "LP", "LR", "LM", "LI", "LI", "RI", "RI", "RM", "RR", "RP", "RP", "RP", "RP">>,
            <<"LP", "LP", "LR", "LM", "LI", "LI", "RI", "RI", "RM", "RR", "RP", "RP", "RP", "RP">>,
            <<"LP", "LP", "LR", "LM", "LI", "LI", "RI", "RI", "RM", "RR", "RP", "RP", "RP">>,
            <<"LP", "LR", "LM", "LI", "LI", "LI", "RI", "RI", "RM", "RR", "RP", "RP">>,
            <<"LP", "LP", "LT", "LT", "LT", "RT", "RT", "RP">> >>)
      [] board = "Iso" /\ named_fingering = Traditional -> Ok(<<
            <<"LP", "LP", "LR", "LM", "LI", "LI", "RI", "RI", "RM", "RR", "RP", "RP", "RP", "RP">>,
            <<"LP", "LP", "LR", "LM", "LI", "LI", "RI", "RI", "RM", "RR", "RP", "RP", "RP", "RP">>,
            <<"LP", "LP", "LR", "LM", "LI", "LI", "RI", "RI", "RM", "RR", "RP", "RP", "RP">>,
            <<"LP", "LP", "LP", "LR", "LM", "LI", "LI", "RI", "RI", "RM", "RR", "RP", "RP">>,
            <<"LP", "LP", "LT", "LT", "LT", "RT", "RT", "RP">> >>)
      [] board = "Iso" /\ named_fingering = Angle -> Ok(<<
            <<"LP", "LP", "LR", "LM", "LI", "LI", "RI", "RI", "RM", "RR", "RP", "RP", "RP", "RP">>,
            <<"LP", "LP", "LR", "LM", "LI", "LI", "RI", "RI", "RM", "RR", "RP", "RP", "RP", "RP">>,
            <<"LP", "LP", "LR", "LM", "LI", "LI", "RI", "RI", "RM", "RR", "RP", "RP", "RP">>,
            <<"LP", "LP", "LR", "LM", "LI", "LI", "LI", "RI", "RI", "RM", "RR", "RP", "RP">>,
            <<"LP", "LP", "LT", "LT", "LT", "RT", "RT", "RP">> >>)
      [] board = "Ortho" /\ named_fingering = Traditional -> Ok(<<
            <<"LP", "LR", "LM", "LI", "LI", "RI", "RI", "RM", "RR", "RP">>,
            <<"LP", "LR", "LM", "LI", "LI", "RI", "RI", "RM", "RR", "RP">>,
            <<"LP", "LR", "LM", "LI", "LI", "RI", "RI", "RM", "RR", "RP">>,
            <<"LT", "LT", "LT", "RT", "RT", "RT">> >>)
      [] board = "Colstag" /\ named_fingering = Traditional -> Ok(<<
            <<"LP", "LR", "LM", "LI", "LI", "RI", "RI", "RM", "RR", "RP">>,
            <<"LP", "LR", "LM", "LI", "LI", "RI", "RI", "RM", "RR", "RP">>,
            <<"LP", "LR", "LM", "LI", "LI", "RI", "RI", "RM", "RR", "RP">>,
            <<"LT", "LT", "LT", "RT", "RT", "RT">> >>)
      [] OTHER -> Err("UnsupportedKeyboardFingeringCombo", <<board, named_fingering>>)

\* KeyboardType::anchor
KeyboardType_anchor(board) ==
    CASE board = "Ansi" -> <<1, 1>>
      [] board = "Iso" -> <<1, 1>>
      [] board = "Ortho" -> <<0, 0>>
      [] board = "Colstag" -> <<0, 0>>
      [] OTHER -> <<0, 0>>

\* A plausible slip: the row counts are not compared
fits_in_zip_only(self, cmp) ==
    \A i \in 1..Min(Len(self), Len(cmp)) : self[i] <= cmp[i]

\* Shape::fits_in
fits_in(self, cmp) ==
    IF Len(self) > Len(cmp) THEN FALSE
    ELSE \A i \in 1..Min(Len(self), Len(cmp)) : self[i] <= cmp[i]

----------------------------------------------------------------------------
(* keyboard.rs: PhysicalKey, PhysicalKeyboard, RelativeKeyboard, ParseKeyboard *)

\* PhysicalKey::xywh
xywh(x, y, width, height) == [x |-> x, y |-> y, width |-> width, height |-> height]
\* PhysicalKey::xyw
xyw(x, y, width) == xywh(x, y, width, 100)
\* PhysicalKey::xy
xy(x, y) == xywh(x, y, 100, 100)

\* PhysicalKey::normalized
normalized(k) == k

RECURSIVE Repeat(_)
\* the flat_map of phys_row: each (width, count) pair expanded to count widths
Repeat(widths) ==
    IF widths = <<>> THEN <<>>
    ELSE [i \in 1..Head(widths)[2] |-> Head(widths)[1]] \o Repeat(Tail(widths))

RECURSIVE SumTo(_, _)
\* the running x cursor: the sum of the first n widths
SumTo(ws, n) == IF n = 0 THEN 0 ELSE SumTo(ws, n - 1) + ws[n]

\* phys_row
phys_row(widths, x_offset, y_offset) ==
    LET ws == Repeat(widths)
    IN  [i \in 1..Len(ws) |-> xyw(x_offset + SumTo(ws, i - 1), y_offset, ws[i])]

\* impl TryFrom<KeyboardType> for PhysicalKeyboard
PhysicalKeyboard_from_type(board) ==
    CASE board = "Ansi" -> Ok(<<
            phys_row(<< <<100, 1>>, <<100, 12>>, <<200, 1>> >>, 0, 0),
            phys_row(<< <<150, 1>>, <<100, 12>>, <<150, 1>> >>, 0, 100),
            phys_row(<< <<175, 1>>, <<100, 11>>, <<225, 1>> >>, 0, 200),
            phys_row(<< <<225, 1>>, <<100, 10>>, <<275, 1>> >>, 0, 300),
            phys_row(<< <<125, 3>>, <<625, 1>>, <<125, 4>> >>, 0, 400) >>)
      [] board = "Iso" -> Ok(<<
            phys_row(<< <<100, 1>>, <<100, 12>>, <<200, 1>> >>, 0, 0),
            Append(phys_row(<< <<150, 1>>, <<100, 12>> >>, 0, 100),
                   xywh(1375, 200, 150, 200)),
            phys_row(<< <<175, 1>>, <<100, 12>> >>, 0, 200),
            phys_row(<< <<125, 1>>, <<100, 11>>, <<275, 1>> >>, 0, 300),
            phys_row(<< <<125, 3>>, <<625, 1>>, <<125, 4>> >>, 0, 400) >>)
      [] board = "Ortho" -> Ok(<<
            phys_row(<< <<100, 10>> >>, 0, 0),
            phys_row(<< <<100, 10>> >>, 0, 100),
            phys_row(<< <<100, 10>> >>, 0, 200),
            phys_row(<< <<100, 6>> >>, 300, 300) >>)
      [] board = "Colstag" -> Ok(<<
            << xy(0, 45), xy(100, 15), xy(200, 0), xy(300, 15), xy(400, 30),
               xy(700, 30), xy(800, 15), xy(900, 0), xy(1000, 15), xy(1100, 45) >>,
            << xy(0, 145), xy(100, 115), xy(200, 100), xy(300, 115), xy(400, 130),
               xy(700, 130), xy(800, 115), xy(900, 100), xy(1000, 115), xy(1100, 145) >>,
            << xy(0, 245), xy(100, 215), xy(200, 200), xy(300, 215), xy(400, 230),
               xy(700, 230), xy(800, 215), xy(900, 200), xy(1000, 215), xy(1100, 245) >>,
            << xy(240, 330), xy(350, 350), xy(470, 380),
               xy(630, 380), xy(750, 350), xy(860, 330) >> >>)
      [] OTHER -> Err("UnknownKeyboardType", <<board>>)

\* RelativeKey
RelativeKey(width, has_key) == [width |-> width, has_key |-> has_key]

\* A plausible slip: the cursor advances past keys only, not past spacers
RelativeRow_keys_only(r, y) ==
    LET HasKey(i) == r[i].has_key
        idx == SelectSeq([i \in 1..Len(r) |-> i], HasKey)
        ws == [j \in 1..Len(idx) |-> r[idx[j]].width]
    IN  [j \in 1..Len(idx) |-> xyw(SumTo(ws, j - 1), y * 100, ws[j])]

\* the filter_map of one row of impl From<RelativeKeyboard> for PhysicalKeyboard
RelativeRow(r, y) ==
    LET ws == [i \in 1..Len(r) |-> r[i].width]
        all == [i \in 1..Len(r) |-> xyw(SumTo(ws, i - 1), y * 100, r[i].width)]
        HasKey(i) == r[i].has_key
        idx == SelectSeq([i \in 1..Len(r) |-> i], HasKey)
    IN  [j \in 1..Len(idx) |-> all[idx[j]]]

\* impl From<RelativeKeyboard> for PhysicalKeyboard
PhysicalKeyboard_from_relative(rkb) ==
    [i \in 1..Len(rkb) |-> RelativeRow(rkb[i], i - 1)]

\* ParseKeyboard: the fields of the other variants are left empty
Named(n) == [kind |-> "Named", name |-> n, rel |-> <<>>, full |-> <<>>]
Relative(r) == [kind |-> "Relative", name |-> "", rel |-> r, full |-> <<>>]
Full(f) == [kind |-> "Full", name |-> "", rel |-> <<>>, full |-> f]

\* A plausible slip: the default anchor of a named board is forgotten
ParseKeyboard_anchor_zero(board) == <<0, 0>>

\* ParseKeyboard::anchor
ParseKeyboard_anchor(board) ==
    IF board.kind = "Named" THEN KeyboardType_anchor(board.name) ELSE <<0, 0>>

\* A plausible slip: a relative or full board reported as an unsupported
\* combination
ParseKeyboard_fingering_unsupported(board, named_fingering) ==
    IF board.kind = "Named" THEN KeyboardType_fingering(board.name, named_fingering)
    ELSE Err("UnsupportedKeyboardFingeringCombo", <<board.name, named_fingering>>)

\* ParseKeyboard::fingering
ParseKeyboard_fingering(board, named_fingering) ==
    IF board.kind = "Named" THEN KeyboardType_fingering(board.name, named_fingering)
    ELSE Err("FingeringForCustomKeyboard", <<>>)

\* impl TryFrom<ParseKeyboard> for PhysicalKeyboard
PhysicalKeyboard_try_from(value) ==
    CASE value.kind = "Named" -> PhysicalKeyboard_from_type(value.name)
      [] value.kind = "Relative" -> Ok(PhysicalKeyboard_from_relative(value.rel))
      [] value.kind = "Full" -> Ok(value.full)

----------------------------------------------------------------------------
(* lib.rs: DofIntermediate, Dof *)

\* ParsedFingering: the field of the other variant is left empty
Explicit(f) == [kind |-> "Explicit", named |-> "", grid |-> f]
Implicit(named) == [kind |-> "Implicit", named |-> named, grid |-> <<>>]

\* impl Default for ParsedFingering
ParsedFingering_default == Implicit(Traditional)

\* impl Default for Language
Language_default == [language |-> "English", weight |-> 100]

\* The iteration order of BTreeMap<String, Layer>: the layer names of the
\* model in the byte order of their strings.
LayerNameOrder == <<"alt", "main", "nav", "shift">>

\* BTreeMap::iter: the keys of a layer map in ascending order
SortedNames(layers) ==
    LET Present(n) == n \in DOMAIN layers
    IN  SelectSeq(LayerNameOrder, Present)

RECURSIVE Flatten(_)
\* Keyboard::keys: the cells of a grid in row-major order
Flatten(grid) == IF grid = <<>> THEN <<>> ELSE Head(grid) \o Flatten(Tail(grid))

\* DofIntermediate::main_layer
main_layer(i) ==
    IF "main" \in DOMAIN i.layers THEN Ok(i.layers["main"])
    ELSE Err("NoMainLayer", <<>>)

\* A plausible slip: the main layer cloned without shifting its keys
generate_shift_layer_cloned(main) ==
    [r \in 1..Len(main) |-> [c \in 1..Len(main[r]) |-> main[r][c]]]

\* DofIntermediate::generate_shift_layer
generate_shift_layer(main) ==
    [r \in 1..Len(main) |-> [c \in 1..Len(main[r]) |-> shifted(main[r][c])]]

\* A plausible slip: only the first missing layer is reported
validate_layer_keys_first_only(i, main) ==
    LET Missing(k) == k.t = "Layer" /\ k.v \notin DOMAIN i.layers
        hits == SelectSeq(Flatten(main), Missing)
    IN  IF hits = <<>> THEN Ok(<<>>)
        ELSE Err("LayersNotFound", <<hits[1].v>>)

\* DofIntermediate::validate_layer_keys
validate_layer_keys(i, main) ==
    LET Missing(k) == k.t = "Layer" /\ k.v \notin DOMAIN i.layers
        hits == SelectSeq(Flatten(main), Missing)
        layers_dont_exist == [j \in 1..Len(hits) |-> hits[j].v]
    IN  IF layers_dont_exist = <<>> THEN Ok(<<>>)
        ELSE Err("LayersNotFound", layers_dont_exist)

\* A plausible slip: only the row counts are compared
validate_layer_shapes_row_count(i, main) ==
    LET Differs(n) == row_count(i.layers[n]) # row_count(main)
        incompatible_shapes == SelectSeq(SortedNames(i.layers), Differs)
    IN  IF incompatible_shapes = <<>> THEN Ok(<<>>)
        ELSE Err("IncompatibleLayerShapes", incompatible_shapes)

\* DofIntermediate::validate_layer_shapes
validate_layer_shapes(i, main) ==
    LET main_shape == shape(main)
        Differs(n) == shape(i.layers[n]) # main_shape
        incompatible_shapes == SelectSeq(SortedNames(i.layers), Differs)
    IN  IF incompatible_shapes = <<>> THEN Ok(<<>>)
        ELSE Err("IncompatibleLayerShapes", incompatible_shapes)

\* A plausible slip: an explicit grid taken without the shape check
explicit_fingering_unchecked(i, main) ==
    LET fingering == IF i.fingering.some THEN i.fingering.v ELSE ParsedFingering_default
    IN  IF fingering.kind = "Explicit" THEN Ok(fingering.grid)
        ELSE LET named == ParseKeyboard_fingering(i.board, fingering.named)
                 anchor == IF i.anchor.some THEN i.anchor.v
                           ELSE ParseKeyboard_anchor(i.board)
             IN  IF ~named.ok THEN named
                 ELSE resized(named.val, anchor, shape(main))

\* DofIntermediate::explicit_fingering
explicit_fingering(i, main) ==
    LET fingering == IF i.fingering.some THEN i.fingering.v ELSE ParsedFingering_default
    IN  IF fingering.kind = "Explicit"
        THEN IF shape(fingering.grid) = shape(main) THEN Ok(fingering.grid)
             ELSE Err("IncompatibleFingeringShape", <<>>)
        ELSE LET named == ParseKeyboard_fingering(i.board, fingering.named)
                 anchor == IF i.anchor.some THEN i.anchor.v
                           ELSE ParseKeyboard_anchor(i.board)
             IN  IF ~named.ok THEN named
                 ELSE resized(named.val, anchor, shape(main))

\* A plausible slip: the two validations called in the other order
validate_layers_shapes_first(i, main) ==
    LET shapes_ok == validate_layer_shapes(i, main) IN
    IF ~shapes_ok.ok THEN shapes_ok ELSE validate_layer_keys(i, main)

\* The two `?` calls of try_from, in their order:
\* inter.validate_layer_keys(main_layer)?; inter.validate_layer_shapes(main_layer)?;
validate_layers(i, main) ==
    LET keys_ok == validate_layer_keys(i, main) IN
    IF ~keys_ok.ok THEN keys_ok ELSE validate_layer_shapes(i, main)

\* impl TryFrom<DofIntermediate> for Dof
try_from(i) ==
    LET m == main_layer(i) IN
    IF ~m.ok THEN m ELSE
    LET main == m.val
        layers_ok == validate_layers(i, main) IN
    IF ~layers_ok.ok THEN layers_ok ELSE
    LET fingering == explicit_fingering(i, main) IN
    IF ~fingering.ok THEN fingering ELSE
    LET parsed == IF i.fingering.some THEN i.fingering.v ELSE ParsedFingering_default
        implicit_fingering == IF parsed.kind = "Implicit" THEN Some(parsed.named) ELSE None
        has_generated_shift == "shift" \notin DOMAIN i.layers
        layers == IF has_generated_shift
                  THEN [n \in DOMAIN i.layers \cup {"shift"} |->
                            IF n = "shift" THEN generate_shift_layer(main)
                            ELSE i.layers[n]]
                  ELSE i.layers
        anchor == IF i.anchor.some THEN i.anchor.v ELSE ParseKeyboard_anchor(i.board)
        full == PhysicalKeyboard_try_from(i.board) IN
    IF ~full.ok THEN full ELSE
    LET cropped == resized(full.val, anchor, shape(fingering.val)) IN
    IF ~cropped.ok THEN cropped ELSE
    LET board == [r \in 1..Len(cropped.val) |->
                    [c \in 1..Len(cropped.val[r]) |-> normalized(cropped.val[r][c])]]
        languages == IF i.languages.some THEN i.languages.v ELSE <<Language_default>>
    IN  Ok([name |-> i.name,
            authors |-> i.authors,
            board |-> board,
            parsed_board |-> i.board,
            year |-> i.year,
            description |-> i.description,
            languages |-> languages,
            link |-> i.link,
            layers |-> layers,
            anchor |-> anchor,
            fingering |-> fingering.val,
            fingering_name |-> implicit_fingering,
            has_generated_shift |-> has_generated_shift])

\* impl From<Dof> for DofIntermediate
into_intermediate(d) ==
    LET layers == IF d.has_generated_shift
                  THEN [n \in DOMAIN d.layers \ {"shift"} |-> d.layers[n]]
                  ELSE d.layers
        named == IF d.fingering_name.some THEN Implicit(d.fingering_name.v)
                 ELSE Explicit(d.fingering)
        fingering == IF named = ParsedFingering_default THEN None ELSE Some(named)
        languages == IF d.languages = <<Language_default>> THEN None
                     ELSE Some(d.languages)
        anchor == IF d.parsed_board.kind = "Named"
                  THEN IF KeyboardType_anchor(d.parsed_board.name) = d.anchor THEN None
                       ELSE Some(KeyboardType_anchor(d.parsed_board.name))
                  ELSE None
    IN  [name |-> d.name,
         authors |-> d.authors,
         board |-> d.parsed_board,
         year |-> d.year,
         description |-> d.description,
         languages |-> languages,
         link |-> d.link,
         layers |-> layers,
         anchor |-> anchor,
         fingering |-> fingering]

----------------------------------------------------------------------------
(* interaction.rs: Dof::swap *)

KeyPos(layer, row, col) == [layer |-> layer, pos |-> [row |-> row, col |-> col]]

\* `as u8` of a usize
as_u8(n) == n % 256

\* Vec<Vec<Key>>::get(row)?.get(col): the 0-based cell, if it exists
GetCell(layer, pos) ==
    IF pos.row < Len(layer) /\ pos.col < Len(layer[pos.row + 1])
    THEN Some(layer[pos.row + 1][pos.col + 1]) ELSE None

\* A plausible slip: the write lands in the first row whatever pos.row is
SetCell_first_row(layer, pos, k) ==
    [layer EXCEPT ![1][pos.col + 1] = k]

\* a write through a pointer to the 0-based cell
SetCell(layer, pos, k) ==
    [layer EXCEPT ![pos.row + 1][pos.col + 1] = k]

\* BTreeMap::remove
Remove(layers, name) == [n \in DOMAIN layers \ {name} |-> layers[n]]

\* BTreeMap::insert
Insert(layers, name, layer) ==
    [n \in DOMAIN layers \cup {name} |-> IF n = name THEN layer ELSE layers[n]]

\* What the write through the two pointers cast from shared references to
\* *mut Key does in a build: undefined behaviour, so either the two cells
\* are exchanged or the layer is left as the shared references saw it.
PtrSwapOutcomes == {"exchanged", "unchanged"}

\* Dof::swap: the returned Result and the layer map left in self
swap(layers, keypos1, keypos2, outcome) ==
    LET layer_name1 == keypos1.layer
        layer_name2 == keypos2.layer
        pos1 == keypos1.pos
        pos2 == keypos2.pos
        bad1 == Err("InvalidPosition", <<as_u8(pos1.row), as_u8(pos1.col)>>)
        bad2 == Err("InvalidPosition", <<as_u8(pos2.row), as_u8(pos2.col)>>)
    IN  IF layer_name1 = layer_name2 THEN
            IF pos1 = pos2 THEN [r |-> Ok(<<>>), layers |-> layers]
            ELSE IF layer_name1 \notin DOMAIN layers
            THEN [r |-> Err("LayerDoesntExist", <<layer_name1>>), layers |-> layers]
            ELSE
            LET layer == layers[layer_name1]
                removed == Remove(layers, layer_name1)
                char1 == GetCell(layer, pos1)
                char2 == GetCell(layer, pos2)
            IN  IF ~char1.some THEN [r |-> bad1, layers |-> removed]
                ELSE IF ~char2.some THEN [r |-> bad2, layers |-> removed]
                ELSE
                LET swapped == IF outcome = "exchanged"
                               THEN SetCell(SetCell(layer, pos1, char2.v), pos2, char1.v)
                               ELSE layer
                IN  [r |-> Ok(<<>>), layers |-> Insert(removed, layer_name1, swapped)]
        ELSE
            IF layer_name1 \notin DOMAIN layers
            THEN [r |-> Err("LayerDoesntExist", <<layer_name1>>), layers |-> layers]
            ELSE
            LET layer1 == layers[layer_name1]
                removed1 == Remove(layers, layer_name1)
            IN  IF layer_name2 \notin DOMAIN removed1
                THEN [r |-> Err("LayerDoesntExist", <<layer_name2>>), layers |-> removed1]
                ELSE
                LET layer2 == removed1[layer_name2]
                    removed2 == Remove(removed1, layer_name2)
                    char1 == GetCell(layer1, pos1)
                    char2 == GetCell(layer2, pos2)
                IN  IF ~char1.some THEN [r |-> bad1, layers |-> removed2]
                    ELSE IF ~char2.some THEN [r |-> bad2, layers |-> removed2]
                    ELSE [r |-> Ok(<<>>),
                          layers |-> Insert(Insert(removed2, layer_name1,
                                                   SetCell(layer1, pos1, char2.v)),
                                            layer_name2, SetCell(layer2, pos2, char1.v))]

----------------------------------------------------------------------------
(* The inputs of the pipeline *)

Shapes == SeqsUpTo(1..MaxCols, MaxRows)

\* A grid of the given shape whose cell (r, c) is drawn from a palette
MkGrid(sh, palette) ==
    [r \in 1..Len(sh) |->
        [c \in 1..sh[r] |-> palette[(((r - 1) * MaxCols + (c - 1)) % Len(palette)) + 1]]]

PlainPalette == <<Char("a"), Char("7"), Special("Space"), Char("ß")>>
LayerKeyPalette == <<Layer("alt"), Char("8"), Word("hi"), Layer("nav")>>
ShiftPalette == <<Char("A"), Transparent, Empty, Char("&")>>
AltPalette == <<Char("1"), Empty, Transparent, Word("x")>>
FingerPalette == <<"LP", "LR", "LM", "LI">>

\* A layer map from optional main, shift and alt layers
LayerMap(main, shift, alt) ==
    LET present == (IF main.some THEN {"main"} ELSE {})
                   \cup (IF shift.some THEN {"shift"} ELSE {})
                   \cup (IF alt.some THEN {"alt"} ELSE {})
    IN  [n \in present |-> CASE n = "main" -> main.v
                              [] n = "shift" -> shift.v
                              [] n = "alt" -> alt.v]

RelativeBoard ==
    Relative(<< <<RelativeKey(100, TRUE), RelativeKey(150, TRUE),
                  RelativeKey(200, FALSE), RelativeKey(100, TRUE)>>,
                <<RelativeKey(100, FALSE), RelativeKey(100, TRUE),
                  RelativeKey(125, TRUE)>> >>)

FullBoard ==
    Full(<< <<xy(0, 0), xywh(100, 0, 150, 200)>>,
            <<xy(25, 100), xy(250, 100)>> >>)

Boards ==
    {Named("Ansi"), Named("Iso"), Named("Ortho"), Named("Colstag"),
     Named("Custom(planck)"), RelativeBoard, FullBoard}

Anchors == {None} \cup {Some(<<x, y>>) : x \in 0..MaxAnchorX, y \in 0..MaxAnchorY}

Fingerings ==
    {None, Some(Implicit(Traditional)), Some(Implicit(Angle)),
     Some(Implicit("Custom(mine)"))}
    \cup {Some(Explicit(MkGrid(sh, FingerPalette))) : sh \in Shapes}

Languages ==
    {None, Some(<<Language_default>>),
     Some(<<[language |-> "Dutch", weight |-> 60], [language |-> "English", weight |-> 40]>>)}

Intermediate(layers, board, anchor, fingering, languages) ==
    [name |-> "Qwerty",
     authors |-> None,
     board |-> board,
     year |-> Some(1878),
     description |-> None,
     languages |-> languages,
     link |-> None,
     layers |-> layers,
     anchor |-> anchor,
     fingering |-> fingering]

MainLayers ==
    {MkGrid(sh, p) : sh \in Shapes, p \in {PlainPalette, LayerKeyPalette}}
ShiftLayers == {MkGrid(sh, ShiftPalette) : sh \in Shapes}
AltLayers == {MkGrid(sh, AltPalette) : sh \in Shapes}

Optional(S) == {None} \cup {Some(x) : x \in S}

\* Inputs that exercise the layer gates: any combination of main, shift
\* and alt layers of any shapes
LayerInput(i) ==
    \E main \in Optional(MainLayers), shift \in Optional(ShiftLayers),
       alt \in Optional(AltLayers),
       board \in {Named("Ortho"), Named("Custom(planck)")},
       fingering \in {None, Some(Implicit(Angle))} :
        i = Intermediate(LayerMap(main, shift, alt), board, None, fingering, None)

\* Inputs that exercise the geometry: every board, anchor and fingering
\* with layers of one shape
GeometryInput(i) ==
    \E sh \in Shapes, with_shift \in BOOLEAN, board \in Boards,
       anchor \in Anchors, fingering \in Fingerings, languages \in Languages :
        i = Intermediate(
                LayerMap(Some(MkGrid(sh, PlainPalette)),
                         IF with_shift THEN Some(MkGrid(sh, ShiftPalette)) ELSE None,
                         None),
                board, anchor, fingering, languages)

Init ==
    /\ IdleResize /\ IdleShift /\ IdleCalls
    /\ LayerInput(inter) \/ GeometryInput(inter)
    /\ dof = None /\ res = None /\ check = None
    /\ pc = "start" /\ nswaps = 0 /\ build = "exchanged"

----------------------------------------------------------------------------
(* The calls of the pipeline *)

\* Dof::try_from(inter)
TryFrom ==
    /\ pc \in {"start", "converted"}
    /\ LET r == try_from(inter)
       IN  /\ res' = Some(r)
           /\ dof' = IF r.ok THEN Some(r.val) ELSE None
           /\ pc' = IF r.ok THEN "resolved" ELSE "rejected"
    /\ UNCHANGED <<inter, check, nswaps, build>>
    /\ UNCHANGED resizeVars
    /\ UNCHANGED shiftVars
    /\ UNCHANGED callVars

\* inter.validate_layer_keys(inter.main_layer()?)
ValidateLayerKeys ==
    /\ pc = "start"
    /\ main_layer(inter).ok
    /\ check' = Some([op |-> "validate_layer_keys",
                      r |-> validate_layer_keys(inter, main_layer(inter).val)])
    /\ pc' = "checked"
    /\ UNCHANGED <<inter, dof, res, nswaps, build>>
    /\ UNCHANGED resizeVars
    /\ UNCHANGED shiftVars
    /\ UNCHANGED callVars

\* inter.validate_layer_shapes(inter.main_layer()?)
ValidateLayerShapes ==
    /\ pc = "start"
    /\ main_layer(inter).ok
    /\ check' = Some([op |-> "validate_layer_shapes",
                      r |-> validate_layer_shapes(inter, main_layer(inter).val)])
    /\ pc' = "checked"
    /\ UNCHANGED <<inter, dof, res, nswaps, build>>
    /\ UNCHANGED resizeVars
    /\ UNCHANGED shiftVars
    /\ UNCHANGED callVars

\* DofIntermediate::from(dof.clone()): the caller keeps dof to compare
IntoIntermediate ==
    /\ pc = "resolved"
    /\ dof.some
    /\ inter' = into_intermediate(dof.v)
    /\ pc' = "converted"
    /\ UNCHANGED <<dof, res, check, nswaps, build>>
    /\ UNCHANGED resizeVars
    /\ UNCHANGED shiftVars
    /\ UNCHANGED callVars

Next == TryFrom \/ ValidateLayerKeys \/ ValidateLayerShapes \/ IntoIntermediate

Spec == Init /\ [][Next]_vars

----------------------------------------------------------------------------
(* Swap specification: Dof::swap on resolved layouts *)

SwapShape == <<2, 1>>

SwapInputs ==
    {Intermediate(LayerMap(Some(MkGrid(SwapShape, PlainPalette)), None, None),
                  Named("Ortho"), None, None, None),
     Intermediate(LayerMap(Some(MkGrid(SwapShape, LayerKeyPalette)),
                           Some(MkGrid(SwapShape, ShiftPalette)),
                           Some(MkGrid(SwapShape, AltPalette))),
                  Named("Ansi"), None, Some(Implicit(Angle)), None)}

SwapLayerNames == {"main", "shift", "nav"}

KeyPositions ==
    {KeyPos(l, r, c) : l \in SwapLayerNames, r \in 0..MaxPos, c \in 0..MaxPos}

InitSwap ==
    /\ IdleResize /\ IdleShift /\ IdleCalls
    /\ inter \in SwapInputs
    /\ dof = None /\ res = None /\ check = None
    /\ pc = "start" /\ nswaps = 0
    /\ build \in PtrSwapOutcomes

\* dof.swap(keypos1, keypos2)
Swap ==
    /\ pc = "resolved"
    /\ dof.some
    /\ nswaps < MaxSwaps
    /\ \E keypos1 \in KeyPositions, keypos2 \in KeyPositions :
        LET out == swap(dof.v.layers, keypos1, keypos2, build)
        IN  /\ dof' = Some([dof.v EXCEPT !.layers = out.layers])
            /\ res' = Some(out.r)
            /\ call' = [fn |-> "swap", keypos1 |-> keypos1, keypos2 |-> keypos2,
                        before |-> dof.v.layers]
    /\ nswaps' = nswaps + 1
    /\ UNCHANGED <<inter, pc, check, build, ret>>
    /\ UNCHANGED resizeVars
    /\ UNCHANGED shiftVars

NextSwap == TryFrom \/ Swap

SpecSwap == InitSwap /\ [][NextSwap]_vars

----------------------------------------------------------------------------
(* Swap specification with positions past the range of a u8 *)

\* Rows and columns of a swap position: in range, out of range, and 256 and up
FarIndices == {0, 1, 256, 257}

FarPositions ==
    {KeyPos("main", r, c) : r \in FarIndices, c \in FarIndices}

\* dof.swap(keypos1, keypos2) with rows and columns up to 257
SwapFar ==
    /\ pc = "resolved"
    /\ dof.some
    /\ nswaps < MaxSwaps
    /\ \E keypos1 \in FarPositions, keypos2 \in FarPositions :
        LET out == swap(dof.v.layers, keypos1, keypos2, build)
        IN  /\ dof' = Some([dof.v EXCEPT !.layers = out.layers])
            /\ res' = Some(out.r)
            /\ call' = [fn |-> "swap", keypos1 |-> keypos1, keypos2 |-> keypos2,
                        before |-> dof.v.layers]
    /\ nswaps' = nswaps + 1
    /\ UNCHANGED <<inter, pc, check, build, ret>>
    /\ UNCHANGED resizeVars
    /\ UNCHANGED shiftVars

NextSwapFar == TryFrom \/ SwapFar

SpecSwapFar == InitSwap /\ [][NextSwapFar]_vars

----------------------------------------------------------------------------
(* Shift specification: Key::shifted on every key of a bounded alphabet *)

Digits == {"0", "1", "2", "3", "4", "5", "6", "7", "8", "9"}
Symbols ==
    {GraveAccent, "[", "]", "<", "'", ",", ".", ";", "/", "=", "-", "\\",
     "~", "!", "@", "&", "*", ">", "?"}
Letters == {LowerCase[i] : i \in 1..Len(LowerCase)}
            \cup {UpperCase[i] : i \in 1..Len(UpperCase)} \cup {"ß"}

ShiftKeys ==
    {Char(c) : c \in Digits \cup Symbols \cup Letters}
    \cup {Special(s) : s \in SpecialKey}
    \cup {Word("the"), Word("SS"), Layer("alt"), Layer("shift"), Empty, Transparent}

InitShift ==
    /\ IdlePipeline /\ IdleResize /\ IdleCalls
    /\ skey \in {Some(k) : k \in ShiftKeys}
    /\ sout = None

Shifted ==
    /\ skey.some /\ sout = None
    /\ sout' = Some(shifted(skey.v))
    /\ UNCHANGED skey
    /\ UNCHANGED pipelineVars
    /\ UNCHANGED resizeVars
    /\ UNCHANGED callVars

NextShift == Shifted

SpecShift == InitShift /\ [][NextShift]_vars

----------------------------------------------------------------------------
(* Resize specification: Keyboard::resized on bounded grids *)

ResizeCells == {"c1", "c2"}
ResizeGrids == SeqsUpTo(SeqsUpTo(ResizeCells, MaxGridCols), MaxGridRows)
ResizeShapes == SeqsUpTo(0..MaxGridCols, MaxGridRows + 1)
ResizeAnchors == (0..MaxGridCols + 1) \X (0..MaxGridRows + 1)

InitResize ==
    /\ IdlePipeline /\ IdleShift /\ IdleCalls
    /\ rgrid \in ResizeGrids
    /\ ranchor \in ResizeAnchors
    /\ rshape \in ResizeShapes
    /\ rout = None

Resized ==
    /\ rout = None
    /\ rout' = Some(resized(rgrid, ranchor, rshape))
    /\ UNCHANGED <<rgrid, ranchor, rshape>>
    /\ UNCHANGED pipelineVars
    /\ UNCHANGED shiftVars
    /\ UNCHANGED callVars

NextResize == Resized

SpecResize == InitResize /\ [][NextResize]_vars

----------------------------------------------------------------------------
(* Text: a &str is the sequence of its chars; lengths and slice indices of  *)
(* the source are in UTF-8 bytes.                                           *)

\* char::len_utf8 of the chars used here
len_utf8(c) == IF c \in {"é", "ß"} THEN 2 ELSE 1

\* str::len: the length in bytes
RECURSIVE str_len(_)
str_len(s) == IF s = <<>> THEN 0 ELSE len_utf8(Head(s)) + str_len(Tail(s))

\* A panic of the called function
Panic(message) == Err("panic", <<message>>)

\* str::split_at(mid): panics unless the byte offset mid is on a char boundary
split_at(s, mid) ==
    IF \E k \in 0..Len(s) : str_len(SubSeq(s, 1, k)) = mid
    THEN LET k == CHOOSE k \in 0..Len(s) : str_len(SubSeq(s, 1, k)) = mid
         IN  Ok(<<SubSeq(s, 1, k), SubSeq(s, k + 1, Len(s))>>)
    ELSE Panic("byte index is not a char boundary")

\* &s[1..]: panics unless the byte offset 1 is on a char boundary
slice_from_1(s) ==
    IF s # <<>> /\ len_utf8(s[1]) = 1 THEN Ok(Tail(s))
    ELSE Panic("byte index 1 is not a char boundary")

DecimalDigits == <<"0", "1", "2", "3", "4", "5", "6", "7", "8", "9">>

digit_value(c) == (CHOOSE i \in 1..10 : DecimalDigits[i] = c) - 1

RECURSIVE digits_value(_)
digits_value(ds) ==
    IF ds = <<>> THEN 0
    ELSE digits_value(SubSeq(ds, 1, Len(ds) - 1)) * 10 + digit_value(ds[Len(ds)])

\* str::parse::<usize>: an optional plus sign, then one or more decimal digits
parse_usize(s) ==
    LET digits == IF s # <<>> /\ s[1] = "+" THEN Tail(s) ELSE s
    IN  IF digits # <<>>
            /\ \A i \in 1..Len(digits) : \E d \in 1..10 : DecimalDigits[d] = digits[i]
        THEN Ok(digits_value(digits))
        ELSE Err("ParseIntError", <<>>)

\* usize's Display: the decimal digits
RECURSIVE usize_fmt(_)
usize_fmt(n) ==
    IF n < 10 THEN <<DecimalDigits[n + 1]>>
    ELSE usize_fmt(n \div 10) \o <<DecimalDigits[(n % 10) + 1]>>

\* str::to_lowercase
to_lowercase(s) ==
    [i \in 1..Len(s) |->
        IF \E j \in 1..Len(UpperCase) : UpperCase[j] = s[i]
        THEN LowerCase[CHOOSE j \in 1..Len(UpperCase) : UpperCase[j] = s[i]]
        ELSE s[i]]

----------------------------------------------------------------------------
(* dofinitions.rs: Key as text *)

\* impl From<T: AsRef<str>> for Key
Key_from(s) ==
    IF Len(s) = 0 THEN Empty
    ELSE IF Len(s) = 1 THEN
        CASE s[1] = "~" -> Empty
          [] s[1] = "*" -> Transparent
          [] s[1] = " " -> Special("Space")
          [] s[1] = "\n" -> Special("Enter")
          [] s[1] = "\t" -> Special("Tab")
          [] OTHER -> Char(s[1])
    ELSE LET l == to_string(to_lowercase(s)) IN
        CASE l = "\\~" -> Char("~")
          [] l = "\\*" -> Char("*")
          [] l = "esc" -> Special("Esc")
          [] l \in {"repeat", "rpt"} -> Special("Repeat")
          [] l \in {"space", "spc"} -> Special("Space")
          [] l \in {"tab", "tb"} -> Special("Tab")
          [] l \in {"enter", "return", "ret", "ent", "rt"} -> Special("Enter")
          [] l \in {"shift", "shft", "sft", "st"} -> Special("Shift")
          [] l \in {"caps", "cps", "cp"} -> Special("Caps")
          [] l \in {"ctrl", "ctl", "ct"} -> Special("Ctrl")
          [] l \in {"alt", "lalt", "ralt", "lt"} -> Special("Alt")
          [] l \in {"meta", "mta", "met", "mt", "super", "sup", "sp"} -> Special("Meta")
          [] l \in {"menu", "mnu", "mn"} -> Special("Menu")
          [] l = "fn" -> Special("Fn")
          [] l \in {"backspace", "bksp", "bcsp", "bsp"} -> Special("Backspace")
          [] l = "del" -> Special("Del")
          [] OTHER ->
                IF s[1] = "@" THEN Layer(to_string(Tail(s)))
                ELSE IF s[1] = "#" \/ (s[1] = "\\" /\ s[2] \in {"#", "@"})
                THEN Word(to_string(Tail(s)))
                ELSE Word(to_string(s))

\* The text of a SpecialKey in impl Display for Key
SpecialKey_text(k) ==
    CASE k = "Esc" -> <<"e", "s", "c">>
      [] k = "Repeat" -> <<"r", "p", "t">>
      [] k = "Space" -> <<"s", "p", "c">>
      [] k = "Tab" -> <<"t", "a", "b">>
      [] k = "Enter" -> <<"r", "e", "t">>
      [] k = "Shift" -> <<"s", "f", "t">>
      [] k = "Caps" -> <<"c", "p", "s">>
      [] k = "Ctrl" -> <<"c", "t", "l">>
      [] k = "Alt" -> <<"a", "l", "t">>
      [] k = "Meta" -> <<"m", "t">>
      [] k = "Menu" -> <<"m", "n">>
      [] k = "Fn" -> <<"f", "n">>
      [] k = "Backspace" -> <<"b", "s", "p">>
      [] k = "Del" -> <<"d", "e", "l">>

TextAlphabet == {"a", "e", "-", "0", "1", "2", "+", "é"}

Texts == SeqsUpTo(TextAlphabet, MaxTextLen)

\* The chars of a String held by a Word or Layer key
chars(w) == CHOOSE s \in Texts : to_string(s) = w

\* impl Display for Key
Key_fmt(k) ==
    CASE k.t = "Empty" -> <<"~">>
      [] k.t = "Transparent" -> <<"*">>
      [] k.t = "Char" -> IF k.v \in {"~", "*"} THEN <<"\\", k.v>> ELSE <<k.v>>
      [] k.t = "Word" -> chars(k.v)
      [] k.t = "Special" -> SpecialKey_text(k.v)
      [] k.t = "Layer" -> chars(k.v)

----------------------------------------------------------------------------
(* combos.rs: ComboKey *)

ComboKey(key, nth) == [key |-> key, nth |-> nth]

\* ComboKey::new
ComboKey_new(s) == ComboKey(Key_from(s), 0)

\* ComboKey::new_nth
ComboKey_new_nth(s, nth) == ComboKey(Key_from(s), nth)

saturating_sub(n, m) == IF n < m THEN 0 ELSE n - m

\* s.chars().rev().position(|c| c == '-')
rposition_dash(s) ==
    IF \E i \in 1..Len(s) : s[i] = "-"
    THEN Some(Len(s) - (CHOOSE i \in 1..Len(s) :
                            s[i] = "-" /\ \A j \in (i + 1)..Len(s) : s[j] # "-"))
    ELSE None

\* impl FromStr for ComboKey
ComboKey_from_str(s) ==
    IF str_len(s) = 0 THEN Err("EmptyComboKey", <<>>)
    ELSE IF str_len(s) \in {1, 2} THEN Ok(ComboKey_new(s))
    ELSE LET p == rposition_dash(s) IN
    IF ~p.some THEN Ok(ComboKey_new(s)) ELSE
    LET split == split_at(s, str_len(s) - p.v - 1) IN
    IF ~split.ok THEN split ELSE
    LET key == split.val[1]
        num == slice_from_1(split.val[2]) IN
    IF ~num.ok THEN num ELSE
    LET nth == parse_usize(num.val) IN
    IF nth.ok THEN Ok(ComboKey_new_nth(key, saturating_sub(nth.val, 1)))
    ELSE Ok(ComboKey_new(s))

\* impl Display for ComboKey
ComboKey_fmt(ck) ==
    IF ck.nth = 0 THEN Key_fmt(ck.key)
    ELSE Key_fmt(ck.key) \o <<"-">> \o usize_fmt(ck.nth)

----------------------------------------------------------------------------
(* combos.rs: ParseCombos, Combos.  A BTreeMap from layer names is a        *)
(* function on the names; the combos of one layer are a sequence in the     *)
(* order of the map.                                                        *)

Pos(row, col) == [row |-> row, col |-> col]

\* layer.rows().enumerate().flat_map(.. (Pos::new(i, j), key)): the cells of
\* a layer in row-major order
enumerate_cells(layer) ==
    Flatten([i \in 1..Len(layer) |->
                [j \in 1..Len(layer[i]) |->
                    [pos |-> Pos(i - 1, j - 1), key |-> layer[i][j]]]])

\* combo_to_str
RECURSIVE combo_to_str(_)
combo_to_str(combos) ==
    IF combos = <<>> THEN ""
    ELSE IF Len(combos) = 1 THEN to_string(ComboKey_fmt(combos[1]))
    ELSE to_string(ComboKey_fmt(combos[1])) \o " " \o combo_to_str(Tail(combos))

\* The positions of the cells that hold the key, in row-major order
RECURSIVE filter_positions(_, _)
filter_positions(cells, key) ==
    IF cells = <<>> THEN <<>>
    ELSE IF Head(cells).key = key
         THEN <<Head(cells).pos>> \o filter_positions(Tail(cells), key)
         ELSE filter_positions(Tail(cells), key)

\* A plausible slip: the occurrence index taken as 1-based
nth_match_one_based(cells, combo, ck) ==
    LET found == filter_positions(cells, ck.key)
    IN  IF 1 <= ck.nth /\ ck.nth <= Len(found) THEN Ok(found[ck.nth])
        ELSE Err("InvalidKeyIndex",
                 <<combo_to_str(combo), to_string(Key_fmt(ck.key)),
                   to_string(usize_fmt(ck.nth))>>)

\* l.iter().filter_map(..).nth(ck.nth).ok_or_else(InvalidKeyIndex)
nth_match(cells, combo, ck) ==
    LET found == filter_positions(cells, ck.key)
    IN  IF ck.nth < Len(found) THEN Ok(found[ck.nth + 1])
        ELSE Err("InvalidKeyIndex",
                 <<combo_to_str(combo), to_string(Key_fmt(ck.key)),
                   to_string(usize_fmt(ck.nth))>>)

\* combo.iter().map(..).collect::<Result<Vec<_>>>(): the first error, or
\* all the positions
collect_positions(cells, combo) ==
    LET found == [i \in 1..Len(combo) |-> nth_match(cells, combo, combo[i])]
    IN  IF \E i \in 1..Len(found) : ~found[i].ok
        THEN found[CHOOSE i \in 1..Len(found) :
                        ~found[i].ok /\ \A j \in 1..(i - 1) : found[j].ok]
        ELSE Ok([i \in 1..Len(found) |-> found[i].val])

\* self.0.into_iter().flat_map(..): every (layer name, combo, output) in the
\* order of the maps
RECURSIVE combo_entries(_, _)
combo_entries(parse_combos, names) ==
    IF names = <<>> THEN <<>>
    ELSE [i \in 1..Len(parse_combos[Head(names)]) |->
            [layer_name |-> Head(names),
             combo |-> parse_combos[Head(names)][i].combo,
             output |-> parse_combos[Head(names)][i].output]]
         \o combo_entries(parse_combos, Tail(names))

\* ParseCombos::into_pos_layers
into_pos_layers(parse_combos, layers) ==
    LET entries == combo_entries(parse_combos, SortedNames(parse_combos))
        resolved ==
            [i \in 1..Len(entries) |->
                IF entries[i].layer_name \notin DOMAIN layers
                THEN Err("UnknownComboLayer",
                         <<entries[i].layer_name, combo_to_str(entries[i].combo)>>)
                ELSE collect_positions(enumerate_cells(layers[entries[i].layer_name]),
                                       entries[i].combo)]
    IN  IF \E i \in 1..Len(resolved) : ~resolved[i].ok
        THEN resolved[CHOOSE i \in 1..Len(resolved) :
                        ~resolved[i].ok /\ \A j \in 1..(i - 1) : resolved[j].ok]
        ELSE Ok([name \in {entries[i].layer_name : i \in 1..Len(entries)} |->
                    LET own == SelectSeq([i \in 1..Len(entries) |-> i],
                                         LAMBDA i : entries[i].layer_name = name)
                    IN  [k \in 1..Len(own) |->
                            [combo |-> resolved[own[k]].val,
                             key |-> entries[own[k]].output]]])

\* The ComboKey that Combos::into_parse_combos writes for a position
position_to_combo_key(layer, pos) ==
    IF pos.row >= Len(layer) \/ pos.col >= Len(layer[pos.row + 1])
    THEN Panic("index out of bounds")
    ELSE IF \E r \in 1..(pos.row + 1) : Len(layer[r]) < pos.col + 1
    THEN Panic("range end index out of range for slice")
    ELSE LET key == layer[pos.row + 1][pos.col + 1]
             count == Cardinality({<<r, c>> \in (1..(pos.row + 1)) \X (1..(pos.col + 1)) :
                                        layer[r][c] = key})
             nth == IF count \in {0, 1} THEN 0 ELSE count
         IN  Ok(ComboKey_new_nth(Key_fmt(key), nth))

\* Combos::into_parse_combos
into_parse_combos(combos, layers) ==
    IF DOMAIN combos = {} THEN Ok(None)
    ELSE IF \E name \in DOMAIN combos : name \notin DOMAIN layers
    THEN Panic("called Option::unwrap() on a None value")
    ELSE LET keys == [name \in DOMAIN combos |->
                        [i \in 1..Len(combos[name]) |->
                            [j \in 1..Len(combos[name][i].combo) |->
                                position_to_combo_key(layers[name],
                                                      combos[name][i].combo[j])]]]
         IN  IF \E name \in DOMAIN combos : \E i \in 1..Len(keys[name]) :
                    \E j \in 1..Len(keys[name][i]) : ~keys[name][i][j].ok
             THEN Panic("index out of range")
             ELSE Ok(Some([name \in DOMAIN combos |->
                            [i \in 1..Len(combos[name]) |->
                                [combo |-> [j \in 1..Len(keys[name][i]) |->
                                                keys[name][i][j].val],
                                 output |-> combos[name][i].key]]]))

----------------------------------------------------------------------------
(* Calls of the lookups of dofinitions.rs *)

FingeringNames == {Traditional, Angle, "Custom(mine)"}

FingeringCalls ==
    {[fn |-> "fingering", board |-> b, named |-> n] : b \in Boards, n \in FingeringNames}

FitsInShapes == SeqsUpTo(0..MaxShapeCols, MaxShapeRows)

FitsInCalls ==
    {[fn |-> "fits_in", a |-> a, b |-> b] : a \in FitsInShapes, b \in FitsInShapes}

InitDofinitions ==
    /\ IdlePipeline /\ IdleResize /\ IdleShift
    /\ call \in FingeringCalls \/ call \in FitsInCalls
    /\ ret = None

\* board.fingering(&named) on a ParseKeyboard
Fingering ==
    /\ call.fn = "fingering"
    /\ ret = None
    /\ ret' = Some(ParseKeyboard_fingering(call.board, call.named))
    /\ UNCHANGED call
    /\ UNCHANGED pipelineVars
    /\ UNCHANGED resizeVars
    /\ UNCHANGED shiftVars

\* a.fits_in(&b)
FitsIn ==
    /\ call.fn = "fits_in"
    /\ ret = None
    /\ ret' = Some(fits_in(call.a, call.b))
    /\ UNCHANGED call
    /\ UNCHANGED pipelineVars
    /\ UNCHANGED resizeVars
    /\ UNCHANGED shiftVars

NextDofinitions == Fingering \/ FitsIn

SpecDofinitions == InitDofinitions /\ [][NextDofinitions]_vars

----------------------------------------------------------------------------
(* Calls of combos.rs *)

ComboCells == {Char("a"), Char("e"), Char("-")}

\* The layers of tests::to_combos_simple
ExampleLayer == <<<<Char("a"), Char("e"), Char("b"), Char("c"), Char("e")>>>>

ComboGrids ==
    {g \in SeqsUpTo(SeqsUpTo(ComboCells, MaxCols) \ {<<>>}, MaxRows) : g # <<>>}
    \cup {ExampleLayer}

ComboKeys == {ComboKey(k, n) : k \in {Char("a"), Char("e")}, n \in 0..MaxNth}

\* The combo `e-2 b e` of tests::to_combos_simple
ExampleCombo == <<ComboKey(Char("e"), 1), ComboKey(Char("b"), 0), ComboKey(Char("e"), 0)>>

ComboInputs == SeqsUpTo(ComboKeys, MaxComboLen) \cup {ExampleCombo}

\* The combos of one layer: none, or one combo with its output
LayerCombos(S, output) == {<<>>} \cup {<<[combo |-> c, output |-> output]>> : c \in S}

\* A map of the layers that have an entry
ComboMap(alt, main, nav) ==
    LET present == (IF alt.some THEN {"alt"} ELSE {})
                   \cup (IF main.some THEN {"main"} ELSE {})
                   \cup (IF nav.some THEN {"nav"} ELSE {})
    IN  [n \in present |-> CASE n = "alt" -> alt.v
                              [] n = "main" -> main.v
                              [] n = "nav" -> nav.v]

IntoPosLayersCall(c) ==
    \E grid \in ComboGrids,
       main \in Optional(LayerCombos(ComboInputs, Special("Repeat"))),
       alt \in Optional(LayerCombos({<<>>}, Char("x"))),
       nav \in Optional(LayerCombos({<<ComboKey(Char("a"), 0)>>}, Char("y"))) :
        c = [fn |-> "into_pos_layers",
             parse_combos |-> ComboMap(alt, main, nav),
             layers |-> [n \in {"main"} |-> grid]]

\* The positions of the cells of a layer
Positions(layer) ==
    {Pos(r - 1, c - 1) : r \in 1..Len(layer), c \in 1..MaxCols} \cap
    {p \in [row : 0..(Len(layer) - 1), col : 0..(MaxCols - 1)] :
        p.col < Len(layer[p.row + 1])}

IntoParseCombosCall(c) ==
    \E grid \in ComboGrids \ {ExampleLayer} :
    \E combo \in SeqsUpTo(Positions(grid), MaxComboLen) :
        c = [fn |-> "into_parse_combos",
             combos |-> [n \in {"main"} |->
                            <<[combo |-> combo, key |-> Special("Repeat")]>>],
             layers |-> [n \in {"main"} |-> grid]]

FromStrCall(c) ==
    \E s \in Texts : c = [fn |-> "from_str", s |-> s]

InitCombos ==
    /\ IdlePipeline /\ IdleResize /\ IdleShift
    /\ FromStrCall(call) \/ IntoPosLayersCall(call) \/ IntoParseCombosCall(call)
    /\ ret = None

\* s.parse::<ComboKey>()
FromStr ==
    /\ call.fn = "from_str"
    /\ ret = None
    /\ ret' = Some(ComboKey_from_str(call.s))
    /\ UNCHANGED call
    /\ UNCHANGED pipelineVars
    /\ UNCHANGED resizeVars
    /\ UNCHANGED shiftVars

\* parse_combos.into_pos_layers(&layers)
IntoPosLayers ==
    /\ call.fn = "into_pos_layers"
    /\ ret = None
    /\ ret' = Some(into_pos_layers(call.parse_combos, call.layers))
    /\ UNCHANGED call
    /\ UNCHANGED pipelineVars
    /\ UNCHANGED resizeVars
    /\ UNCHANGED shiftVars

\* combos.into_parse_combos(&layers)
IntoParseCombos ==
    /\ call.fn = "into_parse_combos"
    /\ ret = None
    /\ ret' = Some(into_parse_combos(call.combos, call.layers))
    /\ UNCHANGED call
    /\ UNCHANGED pipelineVars
    /\ UNCHANGED resizeVars
    /\ UNCHANGED shiftVars

NextCombos == FromStr \/ IntoPosLayers \/ IntoParseCombos

SpecCombos == InitCombos /\ [][NextCombos]_vars

----------------------------------------------------------------------------
(* keyboard.rs: the physical to relative conversion, and keys as text *)

MaxBoardRows == 2   \* rows of a physical board
MaxRowKeys == 2     \* keys of one row of a physical board
MaxBoardKeys == 3   \* keys of a physical board

RECURSIVE relative_rest(_, _, _)
\* the loop `for key in r` of impl From<PhysicalKeyboard> for ParseKeyboard:
\* the relative keys it pushes, or None when it returns early
relative_rest(r, row_i, last_x) ==
    IF r = <<>> THEN Some(<<>>)
    ELSE LET key == Head(r)
             pushed == IF key.x = last_x
                       THEN <<RelativeKey(key.width, TRUE)>>
                       ELSE <<RelativeKey(key.x - last_x, FALSE),
                              RelativeKey(key.width, TRUE)>>
             rest == relative_rest(Tail(r), row_i, key.x + key.width)
         IN  IF key.y # row_i * 100 THEN None
             ELSE IF key.x < last_x THEN None
             ELSE IF rest.some THEN Some(pushed \o rest.v)
             ELSE None

\* the closure mapped over board.rows().enumerate()
relative_row(r, row_i) ==
    IF r = <<>> THEN Some(<<>>)
    ELSE LET f == Head(r)
             first == IF f.x = 0
                      THEN <<RelativeKey(f.width, TRUE)>>
                      ELSE <<RelativeKey(f.x, FALSE), RelativeKey(f.width, TRUE)>>
             rest == relative_rest(Tail(r), row_i, f.width + f.x)
         IN  IF f.y # row_i * 100 THEN None
             ELSE IF rest.some THEN Some(first \o rest.v)
             ELSE None

\* impl From<PhysicalKeyboard> for ParseKeyboard
ParseKeyboard_from_physical(board) ==
    IF board = <<>> THEN Full(<<>>)
    ELSE LET relative_board == [i \in 1..Len(board) |-> relative_row(board[i], i - 1)]
         IN  IF \A i \in 1..Len(board) : relative_board[i].some
             THEN Relative([i \in 1..Len(board) |-> relative_board[i].v])
             ELSE Full(board)

\* f64's Display of a non-negative number of hundredths: the integer part,
\* then a point and the fraction without trailing zeros when there is one
f64_fmt(v) ==
    LET frac == v % 100
    IN  usize_fmt(v \div 100) \o
        (IF frac = 0 THEN <<>>
         ELSE IF frac % 10 = 0 THEN <<".", DecimalDigits[(frac \div 10) + 1]>>
         ELSE <<".", DecimalDigits[(frac \div 10) + 1], DecimalDigits[(frac % 10) + 1]>>)

\* all characters of s are decimal digits
all_digits(s) ==
    \A i \in 1..Len(s) : \E d \in 1..10 : DecimalDigits[d] = s[i]

\* str::parse::<f64> of unsigned decimal text with at most two fractional
\* digits, in hundredths; text that is no number is a ParseFloatError
parse_f64(s) ==
    LET point == IF \E i \in 1..Len(s) : s[i] = "."
                 THEN CHOOSE i \in 1..Len(s) :
                        s[i] = "." /\ \A j \in 1..(i - 1) : s[j] # "."
                 ELSE Len(s) + 1
        int == SubSeq(s, 1, point - 1)
        frac == SubSeq(s, point + 1, Len(s))
    IN  IF all_digits(int) /\ all_digits(frac) /\ Len(int) + Len(frac) > 0
           /\ Len(frac) <= 2
        THEN Ok(digits_value(int) * 100
                + (IF Len(frac) = 1 THEN digits_value(frac) * 10
                   ELSE digits_value(frac)))
        ELSE Err("ParseFloatError", <<>>)

RECURSIVE split_whitespace(_)
\* str::split_whitespace
split_whitespace(s) ==
    IF s = <<>> THEN <<>>
    ELSE IF Head(s) = " " THEN split_whitespace(Tail(s))
    ELSE LET n == IF \E i \in 1..Len(s) : s[i] = " "
                  THEN CHOOSE i \in 1..Len(s) :
                         s[i] = " " /\ \A j \in 1..(i - 1) : s[j] # " "
                  ELSE Len(s) + 1
         IN  <<SubSeq(s, 1, n - 1)>> \o split_whitespace(SubSeq(s, n, Len(s)))

RECURSIVE trim(_)
\* str::trim
trim(s) ==
    IF s = <<>> THEN <<>>
    ELSE IF Head(s) = " " THEN trim(Tail(s))
    ELSE IF s[Len(s)] = " " THEN trim(SubSeq(s, 1, Len(s) - 1))
    ELSE s

RECURSIVE join_spaces(_)
\* the words of a line joined by single spaces
join_spaces(words) ==
    IF words = <<>> THEN <<>>
    ELSE IF Len(words) = 1 THEN words[1]
    ELSE words[1] \o <<" ">> \o join_spaces(Tail(words))

\* the closure `omit` of PhysicalKey's Display, on millionths
omit(v) == v * 10000 >= 999999 \/ v * 10000 <= 1000001

\* impl Display for PhysicalKey
PhysicalKey_fmt(k) ==
    CASE omit(k.width) /\ omit(k.height) ->
            join_spaces(<<f64_fmt(k.x), f64_fmt(k.y)>>)
      [] ~omit(k.width) /\ omit(k.height) ->
            join_spaces(<<f64_fmt(k.x), f64_fmt(k.y), f64_fmt(k.width)>>)
      [] ~omit(k.height) ->
            join_spaces(<<f64_fmt(k.x), f64_fmt(k.y), f64_fmt(k.width), f64_fmt(k.height)>>)

\* impl FromStr for PhysicalKey
PhysicalKey_from_str(s) ==
    LET trimmed == trim(s)
        words == split_whitespace(trimmed)
        values == [i \in 1..Len(words) |-> parse_f64(words[i])]
    IN  IF trimmed = <<>> THEN Err("EmptyPhysKey", <<>>)
        ELSE IF \E i \in 1..Len(values) : ~values[i].ok
        THEN Err("KeyParseError", <<trimmed>>)
        ELSE CASE Len(values) = 2 -> Ok(xy(values[1].val, values[2].val))
               [] Len(values) = 3 -> Ok(xyw(values[1].val, values[2].val, values[3].val))
               [] Len(values) = 4 ->
                    Ok(xywh(values[1].val, values[2].val, values[3].val, values[4].val))
               [] OTHER -> Err("ValueAmountError", <<Len(values), trimmed>>)

\* impl Display for RelativeKey
RelativeKey_fmt(k) ==
    CASE k.width = 100 -> <<"k">>
      [] k.width # 100 /\ k.width % 100 = 0 -> usize_fmt(k.width \div 100) \o <<"k">>
      [] OTHER -> f64_fmt(k.width) \o <<"k">>

\* str::strip_suffix('k')
strip_suffix_k(s) ==
    IF s # <<>> /\ s[Len(s)] = "k" THEN Some(SubSeq(s, 1, Len(s) - 1)) ELSE None

\* impl FromStr for RelativeKey
RelativeKey_from_str(s) ==
    LET stripped == strip_suffix_k(s)
        width == parse_f64(IF stripped.some THEN stripped.v ELSE s)
    IN  CASE stripped.some /\ stripped.v # <<>> ->
                IF width.ok THEN Ok(RelativeKey(width.val, TRUE)) ELSE width
          [] stripped.some /\ stripped.v = <<>> -> Ok(RelativeKey(100, TRUE))
          [] OTHER ->
                IF width.ok THEN Ok(RelativeKey(width.val, FALSE)) ELSE width

----------------------------------------------------------------------------
(* The specification of the keyboard conversions *)

\* The keys of the boards converted
BoardKeys == [x : {0, 100, 150}, y : {0, 100}, width : {100, 150}, height : {100, 200}]

\* The keys written as text
TextKeys == [x : {0, 25, 150, 1210}, y : {0, 100, 5},
             width : {100, 150, 25}, height : {100, 200, 125}]

\* The text parsed as a key
KeyTextAlphabet == {"0", "1", "5", ".", " ", "k"}
KeyTexts == SeqsUpTo(KeyTextAlphabet, MaxTextLen)

\* The number of keys of a board
KeyCount(board) == SumTo([i \in 1..Len(board) |-> Len(board[i])], Len(board))

FromPhysicalCall(c) ==
    \E board \in SeqsUpTo(SeqsUpTo(BoardKeys, MaxRowKeys), MaxBoardRows) :
        /\ KeyCount(board) <= MaxBoardKeys
        /\ c = [fn |-> "from_physical", board |-> board]

PhysicalKeyFmtCall(c) ==
    \E key \in TextKeys : c = [fn |-> "PhysicalKey_fmt", key |-> key]

PhysicalKeyFromStrCall(c) ==
    \E s \in KeyTexts : c = [fn |-> "PhysicalKey_from_str", s |-> s]

MaxRowEntries == 3  \* entries of one row of a relative board

\* The relative keys written as text
RelativeKeys == [width : {100, 200, 150, 25, 1000}, has_key : BOOLEAN]

\* The entries of the relative boards converted
RelativeEntries == [width : {100, 150}, has_key : BOOLEAN]

RelativeKeyFmtCall(c) ==
    \E key \in RelativeKeys : c = [fn |-> "RelativeKey_fmt", key |-> key]

RelativeKeyFromStrCall(c) ==
    \E s \in KeyTexts : c = [fn |-> "RelativeKey_from_str", s |-> s]

FromRelativeCall(c) ==
    \E rkb \in SeqsUpTo(SeqsUpTo(RelativeEntries, MaxRowEntries), MaxBoardRows) :
        c = [fn |-> "from_relative", rkb |-> rkb]

InitKeyboard ==
    /\ IdlePipeline /\ IdleResize /\ IdleShift
    /\ FromPhysicalCall(call) \/ PhysicalKeyFmtCall(call) \/ PhysicalKeyFromStrCall(call)
       \/ RelativeKeyFmtCall(call) \/ RelativeKeyFromStrCall(call)
       \/ FromRelativeCall(call)
    /\ ret = None

\* ParseKeyboard::from(board)
FromPhysical ==
    /\ call.fn = "from_physical"
    /\ ret = None
    /\ ret' = Some(ParseKeyboard_from_physical(call.board))
    /\ UNCHANGED call
    /\ UNCHANGED pipelineVars
    /\ UNCHANGED resizeVars
    /\ UNCHANGED shiftVars

\* key.to_string()
PhysicalKeyFmt ==
    /\ call.fn = "PhysicalKey_fmt"
    /\ ret = None
    /\ ret' = Some(PhysicalKey_fmt(call.key))
    /\ UNCHANGED call
    /\ UNCHANGED pipelineVars
    /\ UNCHANGED resizeVars
    /\ UNCHANGED shiftVars

\* s.parse::<PhysicalKey>()
PhysicalKeyFromStr ==
    /\ call.fn = "PhysicalKey_from_str"
    /\ ret = None
    /\ ret' = Some(PhysicalKey_from_str(call.s))
    /\ UNCHANGED call
    /\ UNCHANGED pipelineVars
    /\ UNCHANGED resizeVars
    /\ UNCHANGED shiftVars

\* key.to_string() of a RelativeKey
RelativeKeyFmt ==
    /\ call.fn = "RelativeKey_fmt"
    /\ ret = None
    /\ ret' = Some(RelativeKey_fmt(call.key))
    /\ UNCHANGED call
    /\ UNCHANGED pipelineVars
    /\ UNCHANGED resizeVars
    /\ UNCHANGED shiftVars

\* s.parse::<RelativeKey>()
RelativeKeyFromStr ==
    /\ call.fn = "RelativeKey_from_str"
    /\ ret = None
    /\ ret' = Some(RelativeKey_from_str(call.s))
    /\ UNCHANGED call
    /\ UNCHANGED pipelineVars
    /\ UNCHANGED resizeVars
    /\ UNCHANGED shiftVars

\* PhysicalKeyboard::from(rkb)
FromRelative ==
    /\ call.fn = "from_relative"
    /\ ret = None
    /\ ret' = Some(PhysicalKeyboard_from_relative(call.rkb))
    /\ UNCHANGED call
    /\ UNCHANGED pipelineVars
    /\ UNCHANGED resizeVars
    /\ UNCHANGED shiftVars

NextKeyboard ==
    \/ FromPhysical \/ PhysicalKeyFmt \/ PhysicalKeyFromStr
    \/ RelativeKeyFmt \/ RelativeKeyFromStr \/ FromRelative

SpecKeyboard == InitKeyboard /\ [][NextKeyboard]_vars

----------------------------------------------------------------------------
(* Queries on a resolved layout: Dof::keys and Dof::get *)

\* DescriptiveKey::new
DescriptiveKey(output, layer, row, col, finger, phys) ==
    [output |-> output, layer |-> layer, pos |-> [row |-> row, col |-> col],
     finger |-> finger, phys |-> phys]

\* DescriptiveKey::keypos
DescriptiveKey_keypos(dk) == [layer |-> dk.layer, pos |-> dk.pos]

\* the inner flat_map of Dof::keys: the cells of one row zipped with the
\* fingers and the physical keys of that row
keys_of_row(name, row, key_row, finger_row, phys_row_) ==
    [c \in 1..Min(Min(Len(key_row), Len(finger_row)), Len(phys_row_)) |->
        DescriptiveKey(key_row[c], name, row, c - 1, finger_row[c], phys_row_[c])]

\* the outer closure of Dof::keys: the rows of one layer zipped with the rows
\* of the fingering and of the board
keys_of_layer(name, layer, fingering, board) ==
    Flatten([r \in 1..Min(Min(Len(layer), Len(fingering)), Len(board)) |->
                keys_of_row(name, r - 1, layer[r], fingering[r], board[r])])

\* Dof::keys
Dof_keys(d) ==
    LET names == SortedNames(d.layers)
    IN  Flatten([n \in 1..Len(names) |->
                    keys_of_layer(names[n], d.layers[names[n]], d.fingering, d.board)])

\* Dof::get
Dof_get(d, key) ==
    LET Matches(dk) == dk.output = key
        found == SelectSeq(Dof_keys(d), Matches)
    IN  [i \in 1..Len(found) |-> DescriptiveKey_keypos(found[i])]

\* The outputs of the cells of a layer
LayerOutputs(layer) ==
    UNION {{layer[r][c] : c \in 1..Len(layer[r])} : r \in 1..Len(layer)}

\* The keys asked for: every output of the layout, and one it lacks
GetKeys(d) ==
    {Char("q")} \cup UNION {LayerOutputs(d.layers[n]) : n \in DOMAIN d.layers}

\* dof.get(key)
Get ==
    /\ pc = "resolved"
    /\ dof.some
    /\ call.fn = "none"
    /\ \E key \in GetKeys(dof.v) :
        /\ call' = [fn |-> "get", key |-> key]
        /\ ret' = Some(Dof_get(dof.v, key))
    /\ UNCHANGED pipelineVars
    /\ UNCHANGED resizeVars
    /\ UNCHANGED shiftVars

\* dof.keys()
Keys ==
    /\ pc = "resolved"
    /\ dof.some
    /\ call.fn = "none"
    /\ call' = [fn |-> "keys"]
    /\ ret' = Some(Dof_keys(dof.v))
    /\ UNCHANGED pipelineVars
    /\ UNCHANGED resizeVars
    /\ UNCHANGED shiftVars

NextGet == TryFrom \/ Get \/ Keys

SpecGet == Init /\ [][NextGet]_vars

----------------------------------------------------------------------------
(* Claims *)

\* The cells a window of desired_shape at anchor needs and the grid lacks
ExceedsBounds(grid, anchor, desired_shape) ==
    \E i \in 1..Len(desired_shape) :
        \/ anchor[2] + i > Len(grid)
        \/ anchor[1] + desired_shape[i] > Len(grid[anchor[2] + i])

\* C1: whenever Keyboard::resized succeeds the result has exactly the
\* desired shape, and it fails whenever anchor + desired_shape exceeds the
\* bounds of the source grid in some row (also a row the grid does not have).
C1_ResizeExactness ==
    rout.some =>
        /\ rout.v.ok => shape(rout.v.val) = rshape
        /\ ExceedsBounds(rgrid, ranchor, rshape) => ~rout.v.ok

\* The layout try_from just returned for inter
Resolved == pc = "resolved" /\ dof.some /\ nswaps = 0

\* C2: the fingering and the physical board of every resolved layout have
\* exactly the shape of its main layer.
C2_ShapesIdentical ==
    Resolved =>
        /\ shape(dof.v.fingering) = shape(dof.v.layers["main"])
        /\ shape(dof.v.board) = shape(dof.v.layers["main"])

\* C3: after any sequence of Dof::swap calls, failed ones included, the
\* layout has the layer names it was resolved with ("main" and "shift"
\* among them) and every layer has the shape of the main layer.
C3_SwapKeepsLayers ==
    (pc = "resolved" /\ dof.some) =>
        /\ DOMAIN dof.v.layers = DOMAIN inter.layers \cup {"shift"}
        /\ \A n \in DOMAIN dof.v.layers :
                shape(dof.v.layers[n]) = shape(dof.v.layers["main"])

\* The layers the Layer keys of the main layer name and the map lacks
MissingLayers(i) ==
    {k.v : k \in {c \in {Flatten(i.layers["main"])[j] :
                            j \in 1..Len(Flatten(i.layers["main"]))} :
                    c.t = "Layer" /\ c.v \notin DOMAIN i.layers}}

\* The layers whose shape differs from the main layer's
MisshapenLayers(i) ==
    {n \in DOMAIN i.layers : shape(i.layers[n]) # shape(i.layers["main"])}

\* The error of the earliest failing gate of the pipeline, or "" if none fails
FirstFailingGate(i) ==
    IF "main" \notin DOMAIN i.layers THEN "NoMainLayer"
    ELSE IF MissingLayers(i) # {} THEN "LayersNotFound"
    ELSE IF MisshapenLayers(i) # {} THEN "IncompatibleLayerShapes"
    ELSE LET fingering == explicit_fingering(i, i.layers["main"]) IN
    IF ~fingering.ok THEN fingering.err.kind
    ELSE LET full == PhysicalKeyboard_try_from(i.board) IN
    IF ~full.ok THEN full.err.kind
    ELSE LET anchor == IF i.anchor.some THEN i.anchor.v
                       ELSE ParseKeyboard_anchor(i.board)
             cropped == resized(full.val, anchor, shape(fingering.val)) IN
    IF ~cropped.ok THEN cropped.err.kind
    ELSE ""

\* C4: try_from returns the error of the earliest failing gate in the order
\* main layer, layer references, layer shapes, fingering, physical board,
\* resize, and a layout only if no gate fails.
C4_GateOrder ==
    (res.some /\ pc \in {"resolved", "rejected"}) =>
        IF FirstFailingGate(inter) = "" THEN res.v.ok
        ELSE ~res.v.ok /\ res.v.err.kind = FirstFailingGate(inter)

\* C4 witness: an input with a missing layer reference, a misshapen layer,
\* an unsupported fingering and an unknown board is rejected with
\* LayersNotFound.
C4_Witness ==
    /\ pc = "rejected" /\ res.some
    /\ res.v.err.kind = "LayersNotFound"
    /\ MisshapenLayers(inter) # {}
    /\ ~explicit_fingering(inter, inter.layers["main"]).ok
    /\ ~PhysicalKeyboard_try_from(inter.board).ok

\* C5: every resolved layout has a "main" and a "shift" layer and all its
\* layers have the shape of the main layer; an input without a main layer
\* is rejected with NoMainLayer.
C5_LayersUniform ==
    /\ Resolved =>
        /\ {"main", "shift"} \subseteq DOMAIN dof.v.layers
        /\ \A n \in DOMAIN dof.v.layers :
                shape(dof.v.layers[n]) = shape(dof.v.layers["main"])
    /\ (res.some /\ pc \in {"resolved", "rejected"}
            /\ "main" \notin DOMAIN inter.layers) =>
        res.v = Err("NoMainLayer", <<>>)

\* C5 witness: a resolved layout with a two-row main layer of unequal rows,
\* a synthesized shift layer and a third layer.
C5_Witness ==
    /\ Resolved
    /\ dof.v.has_generated_shift
    /\ "alt" \in DOMAIN dof.v.layers
    /\ Len(dof.v.layers["main"]) = 2
    /\ Len(dof.v.layers["main"][1]) # Len(dof.v.layers["main"][2])

\* The names an error lists
Named_in(r) == {r.err.info[j] : j \in 1..Len(r.err.info)}

\* C6: validate_layer_keys fails with LayersNotFound naming every missing
\* referenced layer, validate_layer_shapes fails with
\* IncompatibleLayerShapes naming every misshapen layer, and each succeeds
\* exactly when it has no offender.
C6_AllOffenders ==
    check.some =>
        LET offenders == IF check.v.op = "validate_layer_keys"
                         THEN MissingLayers(inter) ELSE MisshapenLayers(inter)
            kind == IF check.v.op = "validate_layer_keys"
                    THEN "LayersNotFound" ELSE "IncompatibleLayerShapes"
        IN  /\ check.v.r.ok <=> offenders = {}
            /\ ~check.v.r.ok =>
                /\ check.v.r.err.kind = kind
                /\ Named_in(check.v.r) = offenders

\* C6 witness: validate_layer_keys run on a main layer that references two
\* layers the map lacks.
C6_Witness ==
    /\ check.some
    /\ check.v.op = "validate_layer_keys"
    /\ ~check.v.r.ok
    /\ Cardinality(MissingLayers(inter)) = 2

\* C7: without a supplied shift layer the resolved shift layer is
\* shifted(main) cell for cell, of the main layer's shape, and
\* has_generated_shift is set; a supplied shift layer is kept unchanged and
\* the flag is clear.
C7_ShiftSynthesis ==
    Resolved =>
        IF "shift" \notin DOMAIN inter.layers
        THEN /\ dof.v.has_generated_shift
             /\ shape(dof.v.layers["shift"]) = shape(inter.layers["main"])
             /\ \A r \in 1..Len(inter.layers["main"]) :
                    \A c \in 1..Len(inter.layers["main"][r]) :
                        dof.v.layers["shift"][r][c] = shifted(inter.layers["main"][r][c])
        ELSE /\ ~dof.v.has_generated_shift
             /\ dof.v.layers["shift"] = inter.layers["shift"]

\* C7 witness: a synthesized shift layer for a two-row main layer holding a
\* letter and a Special key.
C7_Witness ==
    /\ Resolved
    /\ "shift" \notin DOMAIN inter.layers
    /\ Len(inter.layers["main"]) = 2
    /\ inter.layers["main"][1][1] = Char("a")
    /\ inter.layers["main"][2][1] = Special("Space")
    /\ dof.v.layers["shift"][2][1] = Transparent

\* The shifted output of the digit and symbol keys of a US QWERTY keyboard
QwertyShift(c) ==
    CASE c = GraveAccent -> "~"
      [] c = "1" -> "!"
      [] c = "2" -> "@"
      [] c = "3" -> "#"
      [] c = "4" -> "$"
      [] c = "5" -> "%"
      [] c = "6" -> "^"
      [] c = "7" -> "&"
      [] c = "8" -> "*"
      [] c = "9" -> "("
      [] c = "0" -> ")"
      [] c = "-" -> "_"
      [] c = "=" -> "+"
      [] c = "[" -> "{"
      [] c = "]" -> "}"
      [] c = "\\" -> "|"
      [] c = ";" -> ":"
      [] c = "'" -> "\""
      [] c = "," -> "<"
      [] c = "." -> ">"
      [] c = "/" -> "?"

QwertyUnshifted ==
    Digits \cup {GraveAccent, "-", "=", "[", "]", "\\", ";", "'", ",", ".", "/"}

\* C8: a generated shift cell is the US QWERTY shift of a digit or symbol,
\* the upper case of a letter, Transparent for a Special key, and the main
\* cell itself for Word, Layer, Empty and Transparent keys.
C8_QwertyShift ==
    sout.some =>
        CASE skey.v.t = "Char" /\ skey.v.v \in QwertyUnshifted ->
                sout.v = Char(QwertyShift(skey.v.v))
          [] skey.v.t = "Char" /\ \E j \in 1..Len(LowerCase) : LowerCase[j] = skey.v.v ->
                \E j \in 1..Len(LowerCase) :
                    LowerCase[j] = skey.v.v /\ sout.v = Char(UpperCase[j])
          [] skey.v.t = "Special" -> sout.v = Transparent
          [] skey.v.t \in {"Word", "Layer", "Empty", "Transparent"} -> sout.v = skey.v
          [] OTHER -> TRUE

\* C9: converting a resolved layout to DofIntermediate and running the
\* pipeline again succeeds and yields the same layout.
C9_RoundTrip ==
    (pc = "converted" /\ dof.some /\ nswaps = 0) =>
        /\ try_from(inter).ok
        /\ try_from(inter).val = dof.v

\* The default anchor of a board descriptor
DefaultAnchor(board) ==
    IF board.kind = "Named" /\ board.name \in {"Ansi", "Iso"} THEN <<1, 1>>
    ELSE <<0, 0>>

\* C10: the anchor of a resolved layout is the explicit anchor if one is
\* given and the board's default otherwise ((1,1) for Ansi and Iso, (0,0)
\* for every other board descriptor); a named fingering and the physical
\* board are both cropped at that anchor.
C10_AnchorDefaulting ==
    /\ inter # None => ParseKeyboard_anchor(inter.board) = DefaultAnchor(inter.board)
    /\ Resolved =>
        LET a == IF inter.anchor.some THEN inter.anchor.v
                 ELSE DefaultAnchor(inter.board)
            full == PhysicalKeyboard_try_from(inter.board).val
        IN  /\ dof.v.anchor = a
            /\ \A r \in 1..Len(dof.v.board) : \A c \in 1..Len(dof.v.board[r]) :
                    dof.v.board[r][c] = full[r + a[2]][c + a[1]]
            /\ dof.v.fingering_name.some =>
                LET table == KeyboardType_fingering(inter.board.name,
                                                    dof.v.fingering_name.v).val
                IN  \A r \in 1..Len(dof.v.fingering) :
                        \A c \in 1..Len(dof.v.fingering[r]) :
                            dof.v.fingering[r][c] = table[r + a[2]][c + a[1]]

\* C10 witness: an Ansi layout without an explicit anchor, resolved with a
\* named fingering at anchor (1, 1).
C10_Witness ==
    /\ Resolved
    /\ ~inter.anchor.some
    /\ inter.board = Named("Ansi")
    /\ dof.v.anchor = <<1, 1>>
    /\ dof.v.fingering_name.some
    /\ Len(dof.v.fingering) = 2
    /\ dof.v.board[1][1] = xy(150, 100)

\* C11: an explicit fingering grid is accepted only if it has exactly the
\* shape of the main layer, and IncompatibleFingeringShape is returned
\* otherwise; an accepted grid is stored unchanged whatever the anchor.
C11_ExplicitFingering ==
    (res.some /\ pc \in {"resolved", "rejected"} /\ nswaps = 0
        /\ inter.fingering.some /\ inter.fingering.v.kind = "Explicit"
        /\ "main" \in DOMAIN inter.layers
        /\ MissingLayers(inter) = {} /\ MisshapenLayers(inter) = {}) =>
        IF shape(inter.fingering.v.grid) = shape(inter.layers["main"])
        THEN IF res.v.ok THEN dof.v.fingering = inter.fingering.v.grid
             ELSE res.v.err.kind # "IncompatibleFingeringShape"
        ELSE res.v = Err("IncompatibleFingeringShape", <<>>)

\* C11 witness: an explicit two-row grid resolved unchanged on an Ansi
\* board at the explicit anchor (1, 1).
C11_Witness ==
    /\ Resolved
    /\ inter.fingering.some /\ inter.fingering.v.kind = "Explicit"
    /\ inter.anchor = Some(<<1, 1>>)
    /\ inter.board = Named("Ansi")
    /\ Len(inter.fingering.v.grid) = 2
    /\ dof.v.fingering = inter.fingering.v.grid

\* C11 witness of the failure: an explicit grid of another shape than the
\* main layer rejected with IncompatibleFingeringShape.
C11_Rejected ==
    /\ pc = "rejected" /\ res.some
    /\ res.v = Err("IncompatibleFingeringShape", <<>>)
    /\ inter.fingering.v.kind = "Explicit"
    /\ Len(inter.fingering.v.grid) = Len(inter.layers["main"])

\* The (archetype, style) pairs of the fixed fingering table
FingeringTable ==
    {<<"Ansi", Traditional>>, <<"Ansi", Angle>>, <<"Iso", Traditional>>,
     <<"Iso", Angle>>, <<"Ortho", Traditional>>, <<"Colstag", Traditional>>}

\* C12: a fingering lookup by name succeeds exactly for the pairs of the
\* fixed table, every other pair of board descriptor and fingering name
\* fails with UnsupportedKeyboardFingeringCombo, and Ortho with traditional
\* has the row lengths [10, 10, 10, 6].
C12_NamedFingering ==
    (call.fn = "fingering" /\ ret.some) =>
        /\ ret.v.ok <=> (call.board.kind = "Named"
                            /\ <<call.board.name, call.named>> \in FingeringTable)
        /\ ~ret.v.ok => ret.v.err.kind = "UnsupportedKeyboardFingeringCombo"
        /\ (call.board = Named("Ortho") /\ call.named = Traditional) =>
                shape(ret.v.val) = <<10, 10, 10, 6>>

\* C12 as the code has it: a named board outside the table fails with
\* UnsupportedKeyboardFingeringCombo, a relative or full board fails with
\* FingeringForCustomKeyboard.
C12_NamedFingeringAmended ==
    (call.fn = "fingering" /\ ret.some) =>
        /\ ret.v.ok <=> (call.board.kind = "Named"
                            /\ <<call.board.name, call.named>> \in FingeringTable)
        /\ ~ret.v.ok =>
                ret.v.err.kind = IF call.board.kind = "Named"
                                 THEN "UnsupportedKeyboardFingeringCombo"
                                 ELSE "FingeringForCustomKeyboard"
        /\ (call.board = Named("Ortho") /\ call.named = Traditional) =>
                shape(ret.v.val) = <<10, 10, 10, 6>>

\* C12 witness: the traditional fingering looked up for a relative board
\* and refused
C12_Witness ==
    /\ call.fn = "fingering" /\ ret.some
    /\ call.board = RelativeBoard /\ call.named = Traditional
    /\ ret.v = Err("FingeringForCustomKeyboard", <<>>)

\* Ortho with angle looked up and refused
C12_OrthoAngle ==
    /\ call.fn = "fingering" /\ ret.some
    /\ call.board = Named("Ortho") /\ call.named = Angle
    /\ ret.v = Err("UnsupportedKeyboardFingeringCombo", <<"Ortho", Angle>>)

\* C13: a.fits_in(b) is true exactly when a has no more rows than b and
\* a[i] <= b[i] for every row i of a; if a fits in b and b fits in a then
\* a = b.
C13_FitsIn ==
    (call.fn = "fits_in" /\ ret.some) =>
        /\ ret.v <=> (/\ Len(call.a) <= Len(call.b)
                      /\ \A i \in 1..Len(call.a) : call.a[i] <= call.b[i])
        /\ (ret.v /\ fits_in(call.b, call.a)) => call.a = call.b

\* C13 witness: a shape that fits row by row in the rows of a shorter shape
\* and is refused for its row count
C13_Witness ==
    /\ call.fn = "fits_in" /\ ret.some
    /\ call.a = <<1, 2, 0>> /\ call.b = <<1, 2>>
    /\ ret.v = FALSE

\* Row-major order of positions
Precedes(p, q) == p.row < q.row \/ (p.row = q.row /\ p.col < q.col)

\* The position of the n-th (0-based) cell equal to key in row-major order,
\* as a set: empty when fewer than n + 1 cells match
NthCell(layer, key, n) ==
    {p \in [row : 0..(Len(layer) - 1), col : 0..4] :
        /\ p.col < Len(layer[p.row + 1])
        /\ layer[p.row + 1][p.col + 1] = key
        /\ Cardinality({q \in [row : 0..p.row, col : 0..4] :
                            /\ q.col < Len(layer[q.row + 1])
                            /\ layer[q.row + 1][q.col + 1] = key
                            /\ Precedes(q, p)}) = n}

\* The failure a combo of a layer must give, or "" if it resolves
ComboFailure(layers, name, combo) ==
    IF name \notin DOMAIN layers THEN "UnknownComboLayer"
    ELSE IF \E j \in 1..Len(combo) : NthCell(layers[name], combo[j].key, combo[j].nth) = {}
    THEN "InvalidKeyIndex"
    ELSE ""

\* C14: into_pos_layers resolves each (key, n) to the position of the n-th
\* cell equal to key in row-major order, fails with InvalidKeyIndex when
\* there is none and with UnknownComboLayer when the layer does not exist,
\* and returns only the error when a pair does not resolve; `e-2 b e` on
\* [a, e, b, c, e] gives [(0,4), (0,2), (0,1)].
C14_ForwardResolution ==
    (call.fn = "into_pos_layers" /\ ret.some) =>
        LET pcs == call.parse_combos
            layers == call.layers
            names == SortedNames(pcs)
            failing == {k \in 1..Len(names) :
                            \E i \in 1..Len(pcs[names[k]]) :
                                ComboFailure(layers, names[k], pcs[names[k]][i].combo) # ""}
        IN  /\ ret.v.ok <=> failing = {}
            /\ ~ret.v.ok =>
                LET first == CHOOSE k \in failing : \A m \in failing : k <= m
                IN  /\ DOMAIN ret.v = {"ok", "err"}
                    /\ ret.v.err.kind =
                        ComboFailure(layers, names[first], pcs[names[first]][1].combo)
            /\ ret.v.ok =>
                /\ DOMAIN ret.v.val = {n \in DOMAIN pcs : pcs[n] # <<>>}
                /\ \A n \in DOMAIN ret.v.val :
                    /\ Len(ret.v.val[n]) = Len(pcs[n])
                    /\ \A i \in 1..Len(pcs[n]) :
                        /\ ret.v.val[n][i].key = pcs[n][i].output
                        /\ Len(ret.v.val[n][i].combo) = Len(pcs[n][i].combo)
                        /\ \A j \in 1..Len(pcs[n][i].combo) :
                            ret.v.val[n][i].combo[j] \in
                                NthCell(layers[n], pcs[n][i].combo[j].key,
                                        pcs[n][i].combo[j].nth)
            /\ (layers["main"] = ExampleLayer /\ DOMAIN pcs = {"main"}
                    /\ pcs["main"] # <<>> /\ pcs["main"][1].combo = ExampleCombo) =>
                /\ ret.v.ok
                /\ ret.v.val["main"][1].combo = <<Pos(0, 4), Pos(0, 2), Pos(0, 1)>>

\* C14 witness: `e-2 b e` resolved on [a, e, b, c, e]
C14_Witness ==
    /\ call.fn = "into_pos_layers" /\ ret.some
    /\ call.layers["main"] = ExampleLayer
    /\ DOMAIN call.parse_combos = {"main"}
    /\ call.parse_combos["main"] # <<>>
    /\ call.parse_combos["main"][1].combo = ExampleCombo
    /\ ret.v.ok
    /\ ret.v.val["main"][1].combo = <<Pos(0, 4), Pos(0, 2), Pos(0, 1)>>

\* A combo of main that resolves, followed by a combo of a layer that does
\* not exist: only the error is returned
C14_NothingRetained ==
    /\ call.fn = "into_pos_layers" /\ ret.some
    /\ DOMAIN call.parse_combos = {"main", "nav"}
    /\ call.parse_combos["main"] # <<>>
    /\ ComboFailure(call.layers, "main", call.parse_combos["main"][1].combo) = ""
    /\ Len(call.parse_combos["main"][1].combo) = 2
    /\ call.parse_combos["nav"] # <<>>
    /\ ret.v = Err("UnknownComboLayer", <<"nav", "a">>)

\* A second occurrence asked of a two-row layer that holds the key once
C14_InvalidIndex ==
    /\ call.fn = "into_pos_layers" /\ ret.some
    /\ Len(call.layers["main"]) = 2
    /\ ~ret.v.ok
    /\ ret.v.err.kind = "InvalidKeyIndex"
    /\ ret.v.err.info = <<"e-1", "e", "1">>

\* The ParseCombos read back from the text that ComboKey's Display writes
\* for each key of written
Reparsed(written) ==
    [name \in DOMAIN written |->
        [i \in 1..Len(written[name]) |->
            [combo |-> [j \in 1..Len(written[name][i].combo) |->
                            ComboKey_from_str(ComboKey_fmt(written[name][i].combo[j]))],
             output |-> written[name][i].output]]]

\* The values of the keys read back
ReparsedKeys(written) ==
    [name \in DOMAIN written |->
        [i \in 1..Len(written[name]) |->
            [combo |-> [j \in 1..Len(written[name][i].combo) |->
                            Reparsed(written)[name][i].combo[j].val],
             output |-> written[name][i].output]]]

\* C15: the positions of a combo, written as text by into_parse_combos and
\* ComboKey's Display and then parsed and resolved again, are the same
\* positions.
C15_ComboRoundTrip ==
    (call.fn = "into_parse_combos" /\ ret.some) =>
        /\ ret.v.ok
        /\ ret.v.val.some
        /\ \A name \in DOMAIN ret.v.val.v : \A i \in 1..Len(ret.v.val.v[name]) :
                \A j \in 1..Len(ret.v.val.v[name][i].combo) :
                    Reparsed(ret.v.val.v)[name][i].combo[j].ok
        /\ into_pos_layers(ReparsedKeys(ret.v.val.v), call.layers) = Ok(call.combos)

\* The round trip of C15 on layers of a single row
C15_SingleRow ==
    (call.fn = "into_parse_combos" /\ ret.some /\ Len(call.layers["main"]) = 1) =>
        /\ ret.v.ok
        /\ ret.v.val.some
        /\ into_pos_layers(ReparsedKeys(ret.v.val.v), call.layers) = Ok(call.combos)

\* On main = [[a, e], [e, a]] the position (1, 0) is written as `e` and
\* read back as (0, 1)
C15_OtherPosition ==
    /\ call.fn = "into_parse_combos" /\ ret.some
    /\ call.layers["main"] = <<<<Char("a"), Char("e")>>, <<Char("e"), Char("a")>>>>
    /\ call.combos["main"][1].combo = <<Pos(1, 0)>>
    /\ ret.v.ok
    /\ to_string(ComboKey_fmt(ret.v.val.v["main"][1].combo[1])) = "e"
    /\ into_pos_layers(ReparsedKeys(ret.v.val.v), call.layers).val["main"][1].combo
            = <<Pos(0, 1)>>

\* On main = [[a], [a, e]] the position (1, 1) makes into_parse_combos panic
C15_Panics ==
    /\ call.fn = "into_parse_combos" /\ ret.some
    /\ call.layers["main"] = <<<<Char("a")>>, <<Char("a"), Char("e")>>>>
    /\ call.combos["main"][1].combo = <<Pos(1, 1)>>
    /\ ret.v.err.kind = "panic"

\* The index of the last `-` of a text, or 0
LastDash(s) ==
    IF \E i \in 1..Len(s) : s[i] = "-"
    THEN CHOOSE i \in 1..Len(s) : s[i] = "-" /\ \A j \in (i + 1)..Len(s) : s[j] # "-"
    ELSE 0

\* The text after the last `-` is a positive integer in decimal digits
HasIndexSuffix(s) ==
    /\ Len(s) >= 3
    /\ LastDash(s) # 0
    /\ LastDash(s) < Len(s)
    /\ \A i \in (LastDash(s) + 1)..Len(s) : \E d \in 1..10 : DecimalDigits[d] = s[i]
    /\ digits_value(SubSeq(s, LastDash(s) + 1, Len(s))) >= 1

\* C16: a trailing `-<n>` with n a positive integer is the 1-based
\* occurrence index, stored as n - 1 with the text before the last `-` as
\* the key; every other non-empty text is the key as a whole with
\* occurrence index 0, and parsing returns a value.
C16_ComboKeyParsing ==
    (call.fn = "from_str" /\ ret.some /\ call.s # <<>>) =>
        /\ ret.v.ok
        /\ ret.v.val =
            IF HasIndexSuffix(call.s)
            THEN ComboKey(Key_from(SubSeq(call.s, 1, LastDash(call.s) - 1)),
                          digits_value(SubSeq(call.s, LastDash(call.s) + 1, Len(call.s))) - 1)
            ELSE ComboKey(Key_from(call.s), 0)

\* The text `a-é` makes from_str panic
C16_Panics ==
    /\ call.fn = "from_str" /\ ret.some
    /\ call.s = <<"a", "-", "é">>
    /\ ret.v.err.kind = "panic"

\* The text `a-0` is read as the key `a`
C16_ZeroSuffix ==
    /\ call.fn = "from_str" /\ ret.some
    /\ call.s = <<"a", "-", "0">>
    /\ ret.v = Ok(ComboKey(Char("a"), 0))

\* C16 on the texts whose chars are all one byte long and whose suffix is
\* neither zero nor signed
C16_AsciiTexts ==
    (call.fn = "from_str" /\ ret.some /\ call.s # <<>>
        /\ str_len(call.s) = Len(call.s)
        /\ parse_usize(SubSeq(call.s, LastDash(call.s) + 1, Len(call.s)))
                \notin {Ok(0)}
        /\ (LastDash(call.s) < Len(call.s) => call.s[LastDash(call.s) + 1] # "+")) =>
        /\ ret.v.ok
        /\ ret.v.val =
            IF HasIndexSuffix(call.s)
            THEN ComboKey(Key_from(SubSeq(call.s, 1, LastDash(call.s) - 1)),
                          digits_value(SubSeq(call.s, LastDash(call.s) + 1, Len(call.s))) - 1)
            ELSE ComboKey(Key_from(call.s), 0)

\* The key position addresses a cell of the layer map
ValidKeyPos(layers, keypos) ==
    /\ keypos.layer \in DOMAIN layers
    /\ keypos.pos.row < Len(layers[keypos.layer])
    /\ keypos.pos.col < Len(layers[keypos.layer][keypos.pos.row + 1])

\* C17: a swap of two valid key positions succeeds, and the same swap
\* applied to its result succeeds and gives back the layout it started from.
C17_SwapInvolution ==
    (call.fn = "swap" /\ dof.some
        /\ ValidKeyPos(call.before, call.keypos1)
        /\ ValidKeyPos(call.before, call.keypos2)) =>
        /\ res.v.ok
        /\ swap(dof.v.layers, call.keypos1, call.keypos2, build)
                = [r |-> Ok(<<>>), layers |-> call.before]

\* C17 witness: a swap between two layers applied twice, with the layout
\* back to the resolved one after the second call
C17_Witness ==
    /\ call.fn = "swap" /\ dof.some /\ nswaps = 2
    /\ call.keypos1 = KeyPos("main", 0, 0)
    /\ call.keypos2 = KeyPos("shift", 1, 0)
    /\ res.v.ok
    /\ call.before # dof.v.layers
    /\ call.before["main"][1][1] = dof.v.layers["shift"][2][1]
    /\ dof.v.layers = try_from(inter).val.layers

\* C17 witness in one layer: two rows of main exchanged and exchanged back
C17_SameLayer ==
    /\ call.fn = "swap" /\ dof.some /\ nswaps = 2
    /\ build = "exchanged"
    /\ call.keypos1 = KeyPos("main", 0, 0)
    /\ call.keypos2 = KeyPos("main", 1, 0)
    /\ res.v.ok
    /\ call.before # dof.v.layers
    /\ dof.v.layers = try_from(inter).val.layers

\* C18: swap returns LayerDoesntExist when a position names a layer the
\* layout lacks, InvalidPosition when a row or column is out of range, also
\* when the two key positions are identical, and Ok only if both positions
\* address existing cells.
C18_SwapErrors ==
    (call.fn = "swap" /\ res.some) =>
        IF \E kp \in {call.keypos1, call.keypos2} : kp.layer \notin DOMAIN call.before
        THEN ~res.v.ok /\ res.v.err.kind = "LayerDoesntExist"
        ELSE IF \E kp \in {call.keypos1, call.keypos2} : ~ValidKeyPos(call.before, kp)
        THEN ~res.v.ok /\ res.v.err.kind = "InvalidPosition"
        ELSE res.v.ok

\* C18 with two different key positions
C18_DifferentPositions ==
    (call.fn = "swap" /\ res.some /\ call.keypos1 # call.keypos2) =>
        IF \E kp \in {call.keypos1, call.keypos2} : kp.layer \notin DOMAIN call.before
        THEN ~res.v.ok /\ res.v.err.kind = "LayerDoesntExist"
        ELSE IF \E kp \in {call.keypos1, call.keypos2} : ~ValidKeyPos(call.before, kp)
        THEN ~res.v.ok /\ res.v.err.kind = "InvalidPosition"
        ELSE res.v.ok

\* A swap of a position of a missing layer with itself returns Ok
C18_IdenticalMissing ==
    /\ call.fn = "swap" /\ res.some
    /\ call.keypos1 = KeyPos("nav", 2, 2)
    /\ call.keypos2 = call.keypos1
    /\ "nav" \notin DOMAIN call.before
    /\ res.v.ok

\* A conversion of a physical board has returned
FromPhysicalReturned == call.fn = "from_physical" /\ ret # None

\* C19: a physical board converted to Relative(r) is reproduced key for key
\* (x, y, width and height) by converting r back, and every other board is
\* returned as Full with the original board.
C19_FaithfulInverse ==
    FromPhysicalReturned =>
        \/ /\ ret.v.kind = "Relative"
           /\ PhysicalKeyboard_from_relative(ret.v.rel) = call.board
        \/ ret.v = Full(call.board)

\* A key of the board has a height other than 1
TallKey(board) ==
    \E i \in 1..Len(board) : \E j \in 1..Len(board[i]) : board[i][j].height # 100

\* C19, the part the code keeps: a board whose keys all have height 1 is
\* reproduced by its relative form, or returned as Full unchanged.
C19_UnitHeights ==
    (FromPhysicalReturned /\ ~TallKey(call.board)) => C19_FaithfulInverse

\* C19, the conversion at work: a two-row board with a gap before a key is
\* returned as Relative and converted back to itself.
C19_Reproduced ==
    /\ FromPhysicalReturned
    /\ Len(call.board) = 2
    /\ \E i \in 1..2 : Len(call.board[i]) = 2
    /\ ret.v.kind = "Relative"
    /\ \E i \in 1..2 : \E j \in 1..Len(ret.v.rel[i]) : ~ret.v.rel[i][j].has_key
    /\ PhysicalKeyboard_from_relative(ret.v.rel) = call.board

\* C19, the failing case: a board with a key of height 2 is returned as
\* Relative, and converting back gives the key height 1.
C19_HeightLost ==
    /\ FromPhysicalReturned
    /\ call.board = << <<xywh(0, 0, 100, 200)>> >>
    /\ ret.v = Relative(<< <<RelativeKey(100, TRUE)>> >>)
    /\ PhysicalKeyboard_from_relative(ret.v.rel) = << <<xy(0, 0)>> >>

\* C19: keys out of x-order or overlapping, or off their row, give Full
C19_FullReturned ==
    /\ FromPhysicalReturned
    /\ \E i \in 1..Len(call.board) :
          /\ Len(call.board[i]) = 2
          /\ call.board[i][2].x < call.board[i][1].x + call.board[i][1].width
    /\ ret.v = Full(call.board)

\* A key has been written as text
PhysicalKeyWritten == call.fn = "PhysicalKey_fmt" /\ ret # None

\* The numbers of the text of a key
Written(values) == join_spaces([i \in 1..Len(values) |-> f64_fmt(values[i])])

\* C20: Display writes `x y` when the width and the height are both within
\* epsilon of 1, `x y width` when only the width differs and `x y width height`
\* when the height differs; parsing the text returns a key with the same x, y,
\* width and height.
C20_DisplayRoundTrip ==
    PhysicalKeyWritten =>
        LET k == call.key
        IN  /\ (k.width = 100 /\ k.height = 100) => ret.v = Written(<<k.x, k.y>>)
            /\ (k.width # 100 /\ k.height = 100) =>
                    ret.v = Written(<<k.x, k.y, k.width>>)
            /\ k.height # 100 => ret.v = Written(<<k.x, k.y, k.width, k.height>>)
            /\ PhysicalKey_from_str(ret.v) = Ok(k)

\* C20, the part the code keeps: a key of width 1 and height 1 is written as
\* `x y` and parsed back to itself.
C20_UnitKeys ==
    (PhysicalKeyWritten /\ call.key.width = 100 /\ call.key.height = 100) =>
        C20_DisplayRoundTrip

\* C20, the case that holds at work: the key at 12.1 0.05 is written as text
C20_UnitKeyWritten ==
    /\ PhysicalKeyWritten
    /\ call.key = xy(1210, 5)
    /\ ret.v = <<"1", "2", ".", "1", " ", "0", ".", "0", "5">>
    /\ PhysicalKey_from_str(ret.v) = Ok(call.key)

\* C20, the failing case: a key of width 1.5 is written as `0 0` and parsed
\* back with width 1.
C20_WidthLost ==
    /\ PhysicalKeyWritten
    /\ call.key = xyw(0, 0, 150)
    /\ ret.v = <<"0", " ", "0">>
    /\ PhysicalKey_from_str(ret.v) = Ok(xy(0, 0))

\* A relative key has been written as text
RelativeKeyWritten == call.fn = "RelativeKey_fmt" /\ ret # None

\* A text has been parsed as a relative key
RelativeKeyParsed == call.fn = "RelativeKey_from_str" /\ ret # None

\* The text is the decimal number of v hundredths
NumberText(s, v) == parse_f64(s) = Ok(v)

\* C21, the reading direction: a bare number is a keyless spacer of that
\* width, a number followed by `k` a key of that width, bare `k` a unit key.
C21_Reading ==
    RelativeKeyParsed =>
        /\ call.s = <<"k">> => ret.v = Ok(RelativeKey(100, TRUE))
        /\ \A v \in 0..1600 :
            /\ NumberText(call.s, v) => ret.v = Ok(RelativeKey(v, FALSE))
            /\ (Len(call.s) > 1 /\ call.s[Len(call.s)] = "k"
                /\ NumberText(SubSeq(call.s, 1, Len(call.s) - 1), v)) =>
                    ret.v = Ok(RelativeKey(v, TRUE))

\* C21: the text encoding of a relative key reads as the claim says, and for
\* every RelativeKey, key or spacer, parsing the text Display writes for it
\* returns the same width and the same has_key flag.
C21_RelativeKeyRoundTrip ==
    /\ C21_Reading
    /\ RelativeKeyWritten => RelativeKey_from_str(ret.v) = Ok(call.key)

\* C21, the part the code keeps: an entry with a key is parsed back to itself
C21_Keys ==
    (RelativeKeyWritten /\ call.key.has_key) =>
        RelativeKey_from_str(ret.v) = Ok(call.key)

\* C21, reading at work: `1.5k` is a key of width 1.5 and `15` a spacer
C21_Read ==
    /\ RelativeKeyParsed
    /\ \/ call.s = <<"1", ".", "5", "k">> /\ ret.v = Ok(RelativeKey(150, TRUE))
       \/ call.s = <<"1", "5">> /\ ret.v = Ok(RelativeKey(1500, FALSE))

\* C21, the failing case: a spacer of width 2 is written as `2k`, which reads
\* as a key of width 2.
C21_SpacerLost ==
    /\ RelativeKeyWritten
    /\ call.key = RelativeKey(200, FALSE)
    /\ ret.v = <<"2", "k">>
    /\ RelativeKey_from_str(ret.v) = Ok(RelativeKey(200, TRUE))

\* The key positions of the cells of a layer in row-major order
LayerPositions(name, layer) ==
    Flatten([r \in 1..Len(layer) |->
                [c \in 1..Len(layer[r]) |-> KeyPos(name, r - 1, c - 1)]])

\* The key positions of every cell of every layer, by layer name and then
\* in row-major order
AllPositions(layers) ==
    LET names == SortedNames(layers)
    IN  Flatten([n \in 1..Len(names) |-> LayerPositions(names[n], layers[names[n]])])

\* The output of the cell a key position addresses
OutputAt(layers, kp) == layers[kp.layer][kp.pos.row + 1][kp.pos.col + 1]

\* The positions among them whose cell holds key
PositionsOf(layers, key) ==
    LET Holds(kp) == OutputAt(layers, kp) = key
    IN  SelectSeq(AllPositions(layers), Holds)

\* C22: Dof::get(key) returns exactly the key positions of every cell of
\* every layer whose output equals key, each once, ordered by layer name and
\* then row-major; Dof::keys() yields one entry per cell of every layer.
C22_GetAndKeys ==
    /\ (call.fn = "get" /\ ret # None) =>
            ret.v = PositionsOf(dof.v.layers, call.key)
    /\ (call.fn = "keys" /\ ret # None) =>
            [i \in 1..Len(ret.v) |-> DescriptiveKey_keypos(ret.v[i])] = AllPositions(dof.v.layers)

\* The fingering and the board of the layout have the shape of its layers
SameShapes(d) ==
    /\ shape(d.fingering) = shape(d.layers["main"])
    /\ shape(d.board) = shape(d.layers["main"])

\* C22, the part the code keeps: on a layout whose fingering and board have
\* the shape of the main layer, get and keys are as the claim says.
C22_SameShapes ==
    (dof # None /\ SameShapes(dof.v)) => C22_GetAndKeys

\* C22 at work: a key held by cells of two layers is found in both, in order
C22_Found ==
    /\ call.fn = "get" /\ ret # None
    /\ Len(ret.v) >= 2
    /\ ret.v[1].layer # ret.v[Len(ret.v)].layer
    /\ ret.v = PositionsOf(dof.v.layers, call.key)

\* C22, the failing case: the board of the layout has fewer rows than its
\* layers, and the key of a cell of the last row is not found.
C22_Missed ==
    /\ call.fn = "get" /\ ret # None
    /\ Len(dof.v.board) < Len(dof.v.layers["main"])
    /\ ret.v = <<>>
    /\ PositionsOf(dof.v.layers, call.key) # <<>>

\* Keyboard::resized has returned a grid
ResizeSucceeded == rout # None /\ rout.v.ok

\* Every cell of the result is the cell of the source at the anchor offset,
\* and every row of the result has the length the shape asks for
WindowContent ==
    ResizeSucceeded =>
        \A i \in 1..Len(rout.v.val) :
            /\ Len(rout.v.val[i]) = rshape[i]
            /\ \A j \in 1..rshape[i] :
                /\ i + ranchor[2] <= Len(rgrid)
                /\ j + ranchor[1] <= Len(rgrid[i + ranchor[2]])
                /\ rout.v.val[i][j] = rgrid[i + ranchor[2]][j + ranchor[1]]

NeededRows(grid, anchor, desired_shape) ==
    {i \in 1..Len(grid) : anchor[2] < i /\ i <= anchor[2] + row_count(desired_shape)}

\* The anchor lies past the rows of the grid or past the end of a needed row
AnchorPastLayout(grid, anchor, desired_shape) ==
    \/ anchor[2] > row_count(grid)
    \/ \E i \in NeededRows(grid, anchor, desired_shape) : anchor[1] > Len(grid[i])

\* A needed row has too few cells after the offset
WindowTooWide(grid, anchor, desired_shape) ==
    \E i \in NeededRows(grid, anchor, desired_shape) :
        desired_shape[i - anchor[2]] > Len(grid[i]) - anchor[1]

\* C24: Keyboard::resized fails with AnchorBiggerThanLayout exactly when
\* anchor.y exceeds the row count or anchor.x exceeds the length of a row the
\* desired window needs; a shorter row below the window does not make the
\* call fail, and a window whose row has too few cells after the offset fails
\* with LayoutDoesntFit instead.
C24_AnchorErrors ==
    rout # None =>
        /\ rout.v = Err("AnchorBiggerThanLayout", <<>>)
              <=> AnchorPastLayout(rgrid, ranchor, rshape)
        /\ (~AnchorPastLayout(rgrid, ranchor, rshape)
            /\ WindowTooWide(rgrid, ranchor, rshape)) =>
                rout.v = Err("LayoutDoesntFit", <<>>)

\* A row below the desired window is shorter than anchor.x
ShortRowBelow(grid, anchor, desired_shape) ==
    \E i \in 1..Len(grid) :
        /\ i > anchor[2] + row_count(desired_shape)
        /\ anchor[1] > Len(grid[i])

\* C24, the part the code keeps: without a short row below the window the
\* two errors are returned as the claim says.
C24_NoShortRowBelow ==
    (rout # None /\ ~ShortRowBelow(rgrid, ranchor, rshape)) => C24_AnchorErrors

\* C24 at work: a needed row with too few cells after the offset
C24_DoesntFit ==
    /\ rout # None
    /\ rgrid = << <<"c1", "c2">> >> /\ ranchor = <<1, 0>> /\ rshape = <<2>>
    /\ rout.v = Err("LayoutDoesntFit", <<>>)

\* C24, the failing case: the window is the first row, the row below it is
\* shorter than anchor.x, and the call fails.
C24_RowBelowFails ==
    /\ rout # None
    /\ rgrid = << <<"c1", "c2">>, <<>> >> /\ ranchor = <<1, 0>> /\ rshape = <<1>>
    /\ rout.v = Err("AnchorBiggerThanLayout", <<>>)

\* A swap has returned an error
SwapFailed == call.fn = "swap" /\ res.some /\ ~res.v.ok

\* C25: a Dof::swap call that returns an error leaves the layout exactly as
\* it was before the call: no layer is removed from the layer map and no cell
\* of any layer changes, in the same-layer and the different-layer case.
C25_FailedSwapKeepsLayout ==
    SwapFailed => dof.v.layers = call.before

\* C25, the part the code keeps: a swap that fails because the first layer
\* it looks up is missing leaves the layout as it was.
C25_FirstLayerMissing ==
    (SwapFailed /\ call.keypos1.layer \notin DOMAIN call.before) =>
        dof.v.layers = call.before

\* C25, the case the code keeps at work
C25_Kept ==
    /\ SwapFailed
    /\ call.keypos1 = KeyPos("nav", 0, 0) /\ call.keypos2 = KeyPos("main", 0, 0)
    /\ res.v = Err("LayerDoesntExist", <<"nav">>)
    /\ dof.v.layers = call.before

\* C25, the failing case in one layer: the second position is out of range
\* and the layer is gone from the map.
C25_SameLayerLost ==
    /\ SwapFailed
    /\ call.keypos1 = KeyPos("main", 0, 0) /\ call.keypos2 = KeyPos("main", 2, 2)
    /\ "main" \in DOMAIN call.before
    /\ res.v.err.kind = "InvalidPosition"
    /\ DOMAIN dof.v.layers = DOMAIN call.before \ {"main"}

\* C25, the failing case between two layers: the second layer is missing and
\* the first one is gone from the map.
C25_OtherLayerLost ==
    /\ SwapFailed
    /\ call.keypos1 = KeyPos("main", 0, 0) /\ call.keypos2 = KeyPos("nav", 0, 0)
    /\ "main" \in DOMAIN call.before
    /\ res.v = Err("LayerDoesntExist", <<"nav">>)
    /\ DOMAIN dof.v.layers = DOMAIN call.before \ {"main"}

\* The two cells are exchanged and every other cell, the layer names and the
\* shapes are as before
ExchangedExactly(old, new, p1, p2) ==
    /\ DOMAIN new = DOMAIN old
    /\ \A n \in DOMAIN old : shape(new[n]) = shape(old[n])
    /\ OutputAt(new, p1) = OutputAt(old, p2)
    /\ OutputAt(new, p2) = OutputAt(old, p1)
    /\ \A n \in DOMAIN old : \A r \in 1..Len(old[n]) : \A c \in 1..Len(old[n][r]) :
        KeyPos(n, r - 1, c - 1) \notin {p1, p2} => new[n][r][c] = old[n][r][c]

\* A step is a successful swap of two existing cells
SwapsCells ==
    /\ nswaps' = nswaps + 1
    /\ res'.v.ok
    /\ ValidKeyPos(dof.v.layers, call'.keypos1)
    /\ ValidKeyPos(dof.v.layers, call'.keypos2)

C26_DifferentLayers ==
    [][(SwapsCells /\ call'.keypos1.layer # call'.keypos2.layer) =>
        /\ ExchangedExactly(dof.v.layers, dof'.v.layers, call'.keypos1, call'.keypos2)
        /\ [dof'.v EXCEPT !.layers = dof.v.layers] = dof.v]_vars

\* C26 in a build where the write through the two pointers exchanges the
\* cells: every successful swap is as the claim says
C26_ExchangingBuild ==
    [][(SwapsCells /\ build = "exchanged") =>
        /\ ExchangedExactly(dof.v.layers, dof'.v.layers, call'.keypos1, call'.keypos2)
        /\ [dof'.v EXCEPT !.layers = dof.v.layers] = dof.v]_vars

\* C26 at work: the cells of two layers exchanged
C26_Exchanged ==
    /\ call.fn = "swap" /\ res.some /\ res.v.ok
    /\ call.keypos1 = KeyPos("main", 0, 1) /\ call.keypos2 = KeyPos("shift", 1, 0)
    /\ ValidKeyPos(call.before, call.keypos1)
    /\ OutputAt(dof.v.layers, call.keypos1) # OutputAt(call.before, call.keypos1)
    /\ ExchangedExactly(call.before, dof.v.layers, call.keypos1, call.keypos2)

\* C26, the failing case: two cells of one layer, swapped through pointers
\* cast from shared references, in a build that leaves the cells as they were
C26_NotExchanged ==
    /\ call.fn = "swap" /\ res.some /\ res.v.ok
    /\ build = "unchanged"
    /\ call.keypos1 = KeyPos("main", 0, 0) /\ call.keypos2 = KeyPos("main", 1, 0)
    /\ OutputAt(call.before, call.keypos1) # OutputAt(call.before, call.keypos2)
    /\ dof.v.layers = call.before

\* C27: in every state of a resolved layout reached by swaps, if
\* has_generated_shift is true the stored shift layer equals
\* generate_shift_layer(main layer).
C27_ShiftRegenerable ==
    (pc = "resolved" /\ dof.some /\ dof.v.has_generated_shift) =>
        /\ {"main", "shift"} \subseteq DOMAIN dof.v.layers
        /\ dof.v.layers["shift"] = generate_shift_layer(dof.v.layers["main"])

\* C27, the part the code keeps: the layout try_from returns
C27_BeforeSwaps ==
    (pc = "resolved" /\ dof.some /\ nswaps = 0) => C27_ShiftRegenerable

\* C27 at work: a generated shift layer right after try_from
C27_Generated ==
    /\ pc = "resolved" /\ dof.some /\ nswaps = 0
    /\ dof.v.has_generated_shift
    /\ dof.v.layers["shift"] = generate_shift_layer(dof.v.layers["main"])
    /\ dof.v.layers["shift"] # dof.v.layers["main"]

\* C27, the failing case: a successful swap of two cells of the main layer
\* leaves the generated shift layer as it was, and converting to
\* DofIntermediate and back gives another shift layer.
C27_ShiftStale ==
    /\ pc = "resolved" /\ dof.some /\ dof.v.has_generated_shift
    /\ call.fn = "swap" /\ res.v.ok /\ build = "exchanged" /\ nswaps = 1
    /\ call.keypos1 = KeyPos("main", 0, 0) /\ call.keypos2 = KeyPos("main", 1, 0)
    /\ dof.v.layers["shift"] = call.before["shift"]
    /\ dof.v.layers["shift"] # generate_shift_layer(dof.v.layers["main"])
    /\ try_from(into_intermediate(dof.v)).val.layers # dof.v.layers

\* The position swap reports: the first one that addresses no cell
Offending(layers, keypos1, keypos2) ==
    IF ~ValidKeyPos(layers, keypos1) THEN keypos1.pos ELSE keypos2.pos

\* C28: an InvalidPosition error of Dof::swap carries the row and the column
\* of the offending position, for every row and column a Pos can hold,
\* values of 256 and above included.
C28_InvalidPositionCarried ==
    (SwapFailed /\ res.v.err.kind = "InvalidPosition") =>
        res.v.err.info = <<Offending(call.before, call.keypos1, call.keypos2).row,
                           Offending(call.before, call.keypos1, call.keypos2).col>>

\* C28, the part the code keeps: rows and columns below 256
C28_BelowU8 ==
    (SwapFailed /\ res.v.err.kind = "InvalidPosition"
        /\ Offending(call.before, call.keypos1, call.keypos2).row < 256
        /\ Offending(call.before, call.keypos1, call.keypos2).col < 256) =>
        C28_InvalidPositionCarried

\* C28 at work below 256: column 1 of the one-cell row 1
C28_Carried ==
    /\ SwapFailed
    /\ call.keypos1 = KeyPos("main", 0, 0) /\ call.keypos2 = KeyPos("main", 1, 1)
    /\ res.v = Err("InvalidPosition", <<1, 1>>)

\* C28, the failing case: row 256 is reported as row 0
C28_Truncated ==
    /\ SwapFailed
    /\ call.keypos1 = KeyPos("main", 0, 0) /\ call.keypos2 = KeyPos("main", 256, 257)
    /\ res.v = Err("InvalidPosition", <<0, 1>>)

\* A relative board has been converted to a physical one
FromRelativeReturned == call.fn = "from_relative" /\ ret # None

\* The entries of a relative row that have a key, in order
KeyEntries(r) ==
    LET HasKey(k) == r[k].has_key
    IN  SelectSeq([k \in 1..Len(r) |-> k], HasKey)

RECURSIVE WidthBefore(_, _)
\* The sum of the widths of the entries before entry k, keys and spacers alike
WidthBefore(r, k) == IF k = 1 THEN 0 ELSE WidthBefore(r, k - 1) + r[k - 1].width

\* C29: for every row r of a RelativeKeyboard the physical row has one key
\* per entry with has_key true, in order; the key of entry k has x equal to
\* the sum of the widths of all entries before k, y equal to the row index,
\* the entry's width and height 1; spacers produce no key.
C29_RelativeToPhysical ==
    FromRelativeReturned =>
        /\ Len(ret.v) = Len(call.rkb)
        /\ \A r \in 1..Len(call.rkb) :
            LET entries == KeyEntries(call.rkb[r])
            IN  /\ Len(ret.v[r]) = Len(entries)
                /\ \A j \in 1..Len(entries) :
                    ret.v[r][j] = [x |-> WidthBefore(call.rkb[r], entries[j]),
                                   y |-> (r - 1) * 100,
                                   width |-> call.rkb[r][entries[j]].width,
                                   height |-> 100]

\* C29 witness: the second row starts with a spacer and has a spacer between
\* its two keys
C29_Witness ==
    /\ FromRelativeReturned
    /\ call.rkb = << <<RelativeKey(100, TRUE)>>,
                     <<RelativeKey(150, FALSE), RelativeKey(150, TRUE),
                       RelativeKey(100, TRUE)>> >>
    /\ ret.v = << <<xy(0, 0)>>, <<xyw(150, 100, 150), xy(300, 100)>> >>

\* The inverse combo transform has returned or panicked
IntoParseCombosReturned == call.fn = "into_parse_combos" /\ ret # None

\* Every position of every combo addresses an existing cell of its layer
CombosOnCells(combos, layers) ==
    \A name \in DOMAIN combos :
        /\ name \in DOMAIN layers
        /\ \A i \in 1..Len(combos[name]) : \A j \in 1..Len(combos[name][i].combo) :
            LET pos == combos[name][i].combo[j]
            IN  /\ pos.row < Len(layers[name])
                /\ pos.col < Len(layers[name][pos.row + 1])

\* C30: for every layer grid, grids with rows of different lengths included,
\* and every combo whose positions are existing cells of that layer,
\* Combos::into_parse_combos returns a ParseCombos value without any
\* out-of-range access.
C30_InverseTotal ==
    (IntoParseCombosReturned /\ CombosOnCells(call.combos, call.layers)) =>
        /\ ret.v.ok
        /\ ret.v.val.some

\* No row above a combo position is too short to hold the position's column
RowsAboveReach(combos, layers) ==
    \A name \in DOMAIN combos :
        \A i \in 1..Len(combos[name]) : \A j \in 1..Len(combos[name][i].combo) :
            LET pos == combos[name][i].combo[j]
            IN  \A r \in 1..pos.row : Len(layers[name][r]) > pos.col

\* C30, the part the code keeps: when every row above a position reaches the
\* position's column the transform returns a value.
C30_RowsAboveReach ==
    (IntoParseCombosReturned /\ CombosOnCells(call.combos, call.layers)
        /\ RowsAboveReach(call.combos, call.layers)) =>
        /\ ret.v.ok
        /\ ret.v.val.some

\* C30 at work: a grid whose second row is the shorter one
C30_Returned ==
    /\ IntoParseCombosReturned
    /\ call.layers["main"] = << <<Char("a"), Char("e")>>, <<Char("e")>> >>
    /\ call.combos["main"][1].combo = <<Pos(1, 0), Pos(0, 1)>>
    /\ ret.v.ok /\ ret.v.val.some

\* C30, the failing case: on main = [[e], [a, e]] the existing cell (1, 1)
\* makes the transform panic on the slice of the shorter row 0.
C30_RaggedPanics ==
    /\ IntoParseCombosReturned
    /\ call.layers["main"] = << <<Char("e")>>, <<Char("a"), Char("e")>> >>
    /\ call.combos["main"][1].combo = <<Pos(1, 1)>>
    /\ CombosOnCells(call.combos, call.layers)
    /\ ~ret.v.ok /\ ret.v.err.kind = "panic"

====
